---------------------------- MODULE Spec2Model ----------------------------
(***************************************************************************)
(* Model of the auction-invoice-extractor pipeline:                        *)
(*   - callWithRetry           (src/services/retry.ts)                     *)
(*   - normalizeInvoiceData    (src/services/normalizeInvoiceData.ts and   *)
(*                              src/unnamed/part_009)                      *)
(*   - mapToXeroBill, uploadBillToXero (src/services/xeroService.ts)       *)
(*   - formatDateForXero       (src/backend/utils/dateUtils.js)            *)
(*   - POST /upload-bill       (src/backend/app.js)                        *)
(*   - the retry loop of POST /api/extract-invoice                         *)
(*                             (src/server/geminiProxy.ts)                 *)
(*   - POST /api/webhooks/xero (src/backend/app.js)                        *)
(*   - App and JsonViewer      (src/unnamed/part_001,                      *)
(*                              src/components/JsonViewer.tsx)             *)
(*                                                                         *)
(* Several source files hold two revisions of the same function, one after *)
(* the other.  Each revision is modelled; a variable (retryImpl,           *)
(* normalizerImpl, mapperImpl, uploader, appNormalizerImpl) says which     *)
(* revision a run executes.                                                *)
(*                                                                         *)
(* JavaScript values are tagged records: [t |-> "str", s |-> <<chars>>],   *)
(* [t |-> "num", n |-> h], ... A finite number x is held as the integer    *)
(* h = Scale * x (two decimals); a string is the sequence of its           *)
(* characters.                                                             *)
(***************************************************************************)
EXTENDS Integers, Sequences, FiniteSets, TLC

VARIABLES
    \* ---- callWithRetry ----
    retryImpl,      \* "zeroBased" (retry.ts 38-70) or "oneBased" (retry.ts 79-133)
    maxRetries,     \* options.maxRetries after defaults
    retryCodes,     \* options.retryableStatusCodes: [given |-> BOOLEAN, codes |-> set]
    attempt,        \* the loop variable
    rpc,            \* position in callWithRetry
    calls,          \* outcome of every settled call of fn, in order
    inFlight,       \* number of calls of fn not yet settled
    lastWait,       \* ms of the most recent backoff wait
    nWaits,         \* number of backoff waits started
    retryOutcome,   \* how callWithRetry settled
    \* ---- extraction, normalizeInvoiceData, uploadBillToXero ----
    normalizerImpl, \* "plain" (normalizeInvoiceData.ts) or "envelope" (part_009)
    mapperImpl,     \* "taxType" (xeroService.ts 13-93) or "noTaxType" (176-227)
    payload,        \* the parsed JSON the extraction endpoint returned
    ppc,            \* position in the pipeline
    invoiceData,    \* normalizeInvoiceData(payload)
    wrappedData,    \* normalizeInvoiceData({InvoiceData: payload})
    renormalized,   \* normalizeInvoiceData(invoiceData)
    accountCode,    \* the account code given to uploadBillToXero
    bill,           \* the XeroBill mapToXeroBill produced
    httpRequests,   \* bodies POSTed to /upload-bill, in order
    uploadResult,   \* how uploadBillToXero settled
    \* ---- formatDateForXero ----
    dateParts,      \* the pieces the input string was built from
    dateStr,        \* the argument
    dateResult,     \* the value returned
    dpc,            \* "call" or "returned"
    \* ---- uploadBillToXero and the POST /upload-bill handler ----
    uploader,       \* who sends the request: the revision of xeroService.ts
                    \* ("taxType", "noTaxType") or "other" (another client)
    uploadInvoice,  \* the InvoiceData given to uploadBillToXero
    sentBill,       \* xeroBillPayload: the bill uploadBillToXero mapped
    reqBillData,    \* req.body.billData as the handler parses it
    reqFile,        \* whether the request carries a file (req.file)
    tokenSet,       \* whether the backend is connected (tokenSet && activeTenantId)
    hpc,            \* position in uploadBillToXero and the handler
    invoice,        \* the invoice object the handler built
    createdInvoices, \* invoices created in the ledger, in order
    attachments,    \* outcome of each attachment call made to the ledger
    res,            \* the response of the handler
    \* ---- the retry loop of POST /api/extract-invoice (server/geminiProxy.ts) ----
    proxyFile,      \* whether the request carries a file (req.file)
    proxyAttempts,  \* attempts
    proxyPc,        \* position in the handler
    proxyCalls,     \* outcome of every settled generateContent call, in order
    proxyInFlight,  \* number of generateContent calls not yet settled
    proxyWaits,     \* ms of every backoff wait started, in order
    proxyRes,       \* status of the response sent (0: none yet)
    \* ---- the POST /api/webhooks/xero handler (backend/app.js) ----
    signingKey,     \* process.env.XERO_WEBHOOK_KEY ("": not set)
    whReq,          \* the request being handled
    wpc,            \* position in the handler
    eventQueue,     \* eventQueue
    whResponses,    \* statuses of the responses sent to the request, in order
    whQueueAtArrival, \* eventQueue when the request arrived
    whCount,        \* number of requests that have arrived
    \* ---- the App component (part_001), JsonViewer and XeroIntegration ----
    appNormalizerImpl, \* the revision of normalizeInvoiceData extractInvoiceData calls
    batchMode,      \* batchMode
    imageFile,      \* whether a single file is selected (imageFile !== null)
    extractedData,  \* extractedData (Null: null)
    isLoading,      \* isLoading
    appError,       \* whether error is set
    invoiceItems,   \* invoiceItems: [data, error, isProcessing] per file
    apc,            \* position in handleExtract
    extractIndex,   \* the loop variable i of the batch loop
    isEditing,      \* isEditing of the JsonViewer in use
    editIndex,      \* which JsonViewer is in use: 0 single mode, k batch item k
    jsonString,     \* its text: [valid |-> JSON.parse succeeds, value |-> the value parsed]
    jsonError,      \* whether its error is set
    handedToXero    \* the invoiceData argument of the latest uploadBillToXero
                    \* call (Undefined: no call yet)

retryVars == <<retryImpl, maxRetries, retryCodes, attempt, rpc, calls, inFlight,
               lastWait, nWaits, retryOutcome>>

pipelineVars == <<normalizerImpl, mapperImpl, payload, ppc, invoiceData, wrappedData,
                  renormalized, accountCode, bill, httpRequests, uploadResult>>

dateVars == <<dateParts, dateStr, dateResult, dpc>>

uploadVars == <<uploader, uploadInvoice, sentBill, reqBillData, reqFile, tokenSet,
                hpc, invoice, createdInvoices, attachments, res>>

proxyVars == <<proxyFile, proxyAttempts, proxyPc, proxyCalls, proxyInFlight,
               proxyWaits, proxyRes>>

webhookVars == <<signingKey, whReq, wpc, eventQueue, whResponses, whQueueAtArrival,
                 whCount>>

appVars == <<appNormalizerImpl, batchMode, imageFile, extractedData, isLoading,
             appError, invoiceItems, apc, extractIndex, isEditing, editIndex,
             jsonString, jsonError, handedToXero>>

vars == <<retryVars, pipelineVars, dateVars, uploadVars, proxyVars, webhookVars,
          appVars>>

\* The value of the variables of the components a specification leaves out.
Unused == "unused"

RetryUnused == /\ retryImpl = Unused /\ maxRetries = Unused /\ retryCodes = Unused
               /\ attempt = Unused /\ rpc = Unused /\ calls = Unused
               /\ inFlight = Unused /\ lastWait = Unused /\ nWaits = Unused
               /\ retryOutcome = Unused

PipelineUnused == /\ normalizerImpl = Unused /\ mapperImpl = Unused
                  /\ payload = Unused /\ ppc = Unused /\ invoiceData = Unused
                  /\ wrappedData = Unused /\ renormalized = Unused
                  /\ accountCode = Unused /\ bill = Unused
                  /\ httpRequests = Unused /\ uploadResult = Unused

DateUnused == /\ dateParts = Unused /\ dateStr = Unused /\ dateResult = Unused
              /\ dpc = Unused

UploadUnused == /\ uploader = Unused /\ uploadInvoice = Unused /\ sentBill = Unused
                /\ reqBillData = Unused /\ reqFile = Unused /\ tokenSet = Unused
                /\ hpc = Unused /\ invoice = Unused /\ createdInvoices = Unused
                /\ attachments = Unused /\ res = Unused

ProxyUnused == /\ proxyFile = Unused /\ proxyAttempts = Unused /\ proxyPc = Unused
               /\ proxyCalls = Unused /\ proxyInFlight = Unused
               /\ proxyWaits = Unused /\ proxyRes = Unused

WebhookUnused == /\ signingKey = Unused /\ whReq = Unused /\ wpc = Unused
                 /\ eventQueue = Unused /\ whResponses = Unused
                 /\ whQueueAtArrival = Unused /\ whCount = Unused

AppUnused == /\ appNormalizerImpl = Unused /\ batchMode = Unused
             /\ imageFile = Unused /\ extractedData = Unused /\ isLoading = Unused
             /\ appError = Unused /\ invoiceItems = Unused /\ apc = Unused
             /\ extractIndex = Unused /\ isEditing = Unused /\ editIndex = Unused
             /\ jsonString = Unused /\ jsonError = Unused
             /\ handedToXero = Unused

(***************************************************************************)
(* Bounds of the model.                                                    *)
(***************************************************************************)
MaxRetriesBound == 2
MaxItems == 2
MaxRequests == 2
MaxFiles == 2

(***************************************************************************)
(* callWithRetry: errors the wrapped operation may raise.                  *)
(*   status     err.status          (0: absent)                            *)
(*   code       err.code            ("": absent)                           *)
(*   respStatus err.response.status (0: absent)                            *)
(*   msg        the marker substrings the lower-cased message contains     *)
(*   retryAfter the Retry-After header, in seconds (0: absent)             *)
(***************************************************************************)
Err(status, code, respStatus, msg, retryAfter) ==
    [status |-> status, code |-> code, respStatus |-> respStatus,
     msg |-> msg, retryAfter |-> retryAfter]

E503     == Err(503, "", 0, {}, 0)
E429     == Err(0, "", 429, {}, 2)
E401     == Err(401, "", 0, {"unauthorized"}, 0)
E500     == Err(500, "", 0, {}, 0)
EReset   == Err(0, "ECONNRESET", 0, {}, 0)
ETimeout == Err(0, "", 0, {"timeout"}, 0)
EPlain   == Err(0, "", 0, {}, 0)
\* a 401 whose message also names a rate limit, and one that names a timeout
EAuthRateLimit == Err(401, "", 0, {"authentication", "rate limit"}, 0)
EAuthTimeout   == Err(401, "", 0, {"authentication", "timeout"}, 0)

Errors == {E503, E429, E401, E500, EReset, ETimeout, EPlain,
           EAuthRateLimit, EAuthTimeout}

NoError == Err(0, "", 0, {"none"}, 0)

Succeeded == [ok |-> TRUE,  err |-> NoError]
Failed(e) == [ok |-> FALSE, err |-> e]

transientStrings == {"ECONNRESET", "ETIMEDOUT", "ECONNABORTED", "EAI_AGAIN"}

DefaultMaxRetries == 5
BaseDelayMs == 300

\* retry.ts 7-11 and 39: DEFAULT_OPTIONS merged with the options given.
DefaultCodes(impl) ==
    IF impl = "zeroBased" THEN {} ELSE {502, 503, 504, 429}

EffectiveCodes(impl, opt) ==
    IF opt.given THEN opt.codes ELSE DefaultCodes(impl)

\* retry.ts 17-36: isTransientError(err, extraRetryable) of the first revision.
\* status is the first truthy of err.status, err.code, err.response.status;
\* a code string is not a number, so Number(status) is NaN for it.
isTransientErrorZeroBased(err, extraRetryable) ==
    LET byStatus ==
            IF err.status # 0 THEN err.status \in ({429, 503} \cup extraRetryable)
            ELSE IF err.code # "" THEN FALSE
            ELSE err.respStatus # 0
                 /\ err.respStatus \in ({429, 503} \cup extraRetryable)
        byCode == err.code # "" /\ err.code \in transientStrings
        byMessage == err.msg \cap {"overloaded", "unavailable", "rate limit"} # {}
    IN  byStatus \/ byCode \/ byMessage

\* retry.ts 92-101 and 108: isTransientError(err, status) of the second revision,
\* with status = err.response.status ?? err.statusCode ?? err.status.
isTransientErrorOneBased(err, retryableStatusCodes) ==
    LET status == IF err.respStatus # 0 THEN err.respStatus ELSE err.status
        byCode == err.code # "" /\ err.code \in transientStrings
        byStatus == status # 0 /\ status \in retryableStatusCodes
        byMessage == err.msg \cap {"timeout", "timed out", "econnreset", "etimedout",
                                   "econnaborted", "eai_again"} # {}
    IN  byCode \/ byStatus \/ byMessage

isTransientError(impl, err, opt) ==
    IF impl = "zeroBased"
    THEN isTransientErrorZeroBased(err, EffectiveCodes(impl, opt))
    ELSE isTransientErrorOneBased(err, EffectiveCodes(impl, opt))

\* retry.ts 40 and 103: the first value of the loop variable.
FirstAttempt(impl) == IF impl = "zeroBased" THEN 0 ELSE 1

\* retry.ts 44 and 112: attempt === maxRetries.
IsLastAttemptOffByOne(a, m) == a + 1 = m
IsLastAttempt(a, m) == a = m

\* retry.ts 49 and 115: the attempts value attached to the error.
AttemptsMade(impl, a) == IF impl = "zeroBased" THEN a + 1 ELSE a

Pow2(k) == IF k <= 0 THEN 1 ELSE 2 ^ k

\* retry.ts 59 and 123: the exponential term of the wait.
Exponential(impl, a) ==
    IF impl = "zeroBased" THEN BaseDelayMs * Pow2(a) ELSE Pow2(a - 1) * BaseDelayMs

\* retry.ts 60 and 124: Math.random() scaled; the least and the greatest
\* whole-millisecond values stand for the range.
Jitters(impl, a) ==
    IF impl = "zeroBased" THEN {0, Exponential(impl, a) - 1}
    ELSE {0, BaseDelayMs - 1}

Max(a, b) == IF a >= b THEN a ELSE b

\* retry.ts 53-61 and 123-125: waitMs.
WaitMs(impl, a, err, jitter) ==
    IF impl = "zeroBased"
    THEN Max(Exponential(impl, a) + jitter, err.retryAfter * 1000)
    ELSE Exponential(impl, a) + jitter

\* part_003 92-156: categorizeError(error); only the message text is examined,
\* one group of markers after the other.
categorizeError(error) ==
    LET includes(markers) == error.msg \cap markers # {}
    IN  IF includes({"API key", "authentication", "401"})
        THEN [category |-> "AUTHENTICATION_ERROR", isRetryable |-> FALSE]
        ELSE IF includes({"quota", "rate limit", "429"})
        THEN [category |-> "RATE_LIMIT_ERROR", isRetryable |-> TRUE]
        ELSE IF includes({"timeout", "ETIMEDOUT", "ECONNREFUSED", "network"})
        THEN [category |-> "NETWORK_ERROR", isRetryable |-> TRUE]
        ELSE IF includes({"unsupported", "invalid format", "mime type"})
        THEN [category |-> "INVALID_FILE_FORMAT", isRetryable |-> FALSE]
        ELSE IF includes({"content policy", "safety"})
        THEN [category |-> "CONTENT_POLICY_ERROR", isRetryable |-> FALSE]
        ELSE IF includes({"503", "service unavailable"})
        THEN [category |-> "SERVICE_UNAVAILABLE", isRetryable |-> TRUE]
        ELSE [category |-> "UNKNOWN_ERROR", isRetryable |-> TRUE]

NoOutcome == [kind |-> "pending", err |-> NoError, hasAttempts |-> FALSE, attempts |-> 0]

RetryOptions ==
    { [given |-> FALSE, codes |-> {}],
      [given |-> TRUE,  codes |-> {}],
      [given |-> TRUE,  codes |-> {503, 429}],
      [given |-> TRUE,  codes |-> {500}] }

RetryInit ==
    /\ retryImpl \in {"zeroBased", "oneBased"}
    /\ maxRetries \in (-1 .. MaxRetriesBound) \cup {DefaultMaxRetries}
    /\ retryCodes \in RetryOptions
    /\ attempt = FirstAttempt(retryImpl)
    /\ rpc = "loop"
    /\ calls = << >>
    /\ inFlight = 0
    /\ lastWait = 0
    /\ nWaits = 0
    /\ retryOutcome = NoOutcome
    /\ PipelineUnused
    /\ DateUnused
    /\ UploadUnused
    /\ ProxyUnused
    /\ WebhookUnused
    /\ AppUnused

\* A loop that calls fn() without awaiting the call before.
CallFnWithoutAwait ==
    /\ rpc \in {"loop", "awaitFn"}
    /\ attempt <= maxRetries
    /\ inFlight' = inFlight + 1
    /\ rpc' = "awaitFn"
    /\ UNCHANGED <<retryImpl, maxRetries, retryCodes, attempt, calls, lastWait,
                   nWaits, retryOutcome>>
    /\ UNCHANGED <<pipelineVars, dateVars, uploadVars, proxyVars, webhookVars, appVars>>

\* retry.ts 40-42 and 103-105: the loop condition holds and fn() is called.
CallFn ==
    /\ rpc = "loop"
    /\ attempt <= maxRetries
    /\ inFlight' = inFlight + 1
    /\ rpc' = "awaitFn"
    /\ UNCHANGED <<retryImpl, maxRetries, retryCodes, attempt, calls, lastWait,
                   nWaits, retryOutcome>>
    /\ UNCHANGED <<pipelineVars, dateVars, uploadVars, proxyVars, webhookVars, appVars>>

\* retry.ts 69 and 132: the loop condition fails; throw new Error('Exceeded retry attempts').
ThrowExceeded ==
    /\ rpc = "loop"
    /\ ~(attempt <= maxRetries)
    /\ rpc' = "thrown"
    /\ retryOutcome' = [kind |-> "exceeded", err |-> NoError,
                        hasAttempts |-> FALSE, attempts |-> 0]
    /\ UNCHANGED <<retryImpl, maxRetries, retryCodes, attempt, calls, inFlight,
                   lastWait, nWaits>>
    /\ UNCHANGED <<pipelineVars, dateVars, uploadVars, proxyVars, webhookVars, appVars>>

\* retry.ts 42 and 105: return await fn() with fn resolved.
FnResolves ==
    /\ rpc = "awaitFn"
    /\ inFlight' = inFlight - 1
    /\ calls' = Append(calls, Succeeded)
    /\ rpc' = "returned"
    /\ retryOutcome' = [kind |-> "returned", err |-> NoError,
                        hasAttempts |-> FALSE, attempts |-> 0]
    /\ UNCHANGED <<retryImpl, maxRetries, retryCodes, attempt, lastWait, nWaits>>
    /\ UNCHANGED <<pipelineVars, dateVars, uploadVars, proxyVars, webhookVars, appVars>>

\* retry.ts 43-66 and 106-129: fn rejected with err; the catch block up to the
\* throw or up to the start of the backoff wait.
FnRejects ==
    /\ rpc = "awaitFn"
    /\ \E err \in Errors :
        LET isLastAttempt == IsLastAttempt(attempt, maxRetries)
            shouldRetry == isTransientError(retryImpl, err, retryCodes)
        IN  /\ inFlight' = inFlight - 1
            /\ calls' = Append(calls, Failed(err))
            /\ IF ~shouldRetry \/ isLastAttempt
               THEN /\ rpc' = "thrown"
                    /\ retryOutcome' = [kind |-> "rethrown", err |-> err,
                                        hasAttempts |-> TRUE,
                                        attempts |-> AttemptsMade(retryImpl, attempt)]
                    /\ UNCHANGED <<lastWait, nWaits>>
               ELSE /\ rpc' = "delay"
                    /\ \E jitter \in Jitters(retryImpl, attempt) :
                        lastWait' = WaitMs(retryImpl, attempt, err, jitter)
                    /\ nWaits' = nWaits + 1
                    /\ UNCHANGED retryOutcome
    /\ UNCHANGED <<retryImpl, maxRetries, retryCodes, attempt>>
    /\ UNCHANGED <<pipelineVars, dateVars, uploadVars, proxyVars, webhookVars, appVars>>

\* retry.ts 65 and 127: the wait is over; attempt++ and back to the loop condition.
DelayElapses ==
    /\ rpc = "delay"
    /\ attempt' = attempt + 1
    /\ rpc' = "loop"
    /\ UNCHANGED <<retryImpl, maxRetries, retryCodes, calls, inFlight, lastWait,
                   nWaits, retryOutcome>>
    /\ UNCHANGED <<pipelineVars, dateVars, uploadVars, proxyVars, webhookVars, appVars>>

RetryNext == CallFn \/ ThrowExceeded \/ FnResolves \/ FnRejects \/ DelayElapses

SpecRetry == RetryInit /\ [][RetryNext]_vars

(***************************************************************************)
(* The retry loop of the POST /api/extract-invoice handler                 *)
(* (src/server/geminiProxy.ts 215-300): up to maxAttempts calls of         *)
(* generateContent, every failure retried, 2^attempts seconds in between.  *)
(***************************************************************************)
ProxyMaxAttempts == 3

\* geminiProxy.ts 259-268: the response text holds no JSON object.
EParse == Err(0, "", 0, {"failed to parse"}, 0)

\* What the try block of one attempt may throw.
ProxyErrors == Errors \cup {EParse}

\* geminiProxy.ts 281: Math.pow(2, attempts) * 1000.
ProxyWaitMs(attempts) == (2 ^ attempts) * 1000

ProxyInit ==
    /\ proxyFile \in BOOLEAN
    /\ proxyAttempts = 0
    /\ proxyPc = "received"
    /\ proxyCalls = << >>
    /\ proxyInFlight = 0
    /\ proxyWaits = << >>
    /\ proxyRes = 0
    /\ RetryUnused
    /\ PipelineUnused
    /\ DateUnused
    /\ UploadUnused
    /\ WebhookUnused
    /\ AppUnused

\* geminiProxy.ts 216-229: without a file the handler answers 400.
ProxyReceive ==
    /\ proxyPc = "received"
    /\ IF proxyFile
       THEN /\ proxyPc' = "loop"
            /\ UNCHANGED proxyRes
       ELSE /\ proxyPc' = "responded"
            /\ proxyRes' = 400
    /\ UNCHANGED <<proxyFile, proxyAttempts, proxyCalls, proxyInFlight, proxyWaits>>
    /\ UNCHANGED <<retryVars, pipelineVars, dateVars, uploadVars, webhookVars, appVars>>

\* geminiProxy.ts 231-233: the loop condition holds; attempts++ and
\* generateContent is called.
ProxyCallModel ==
    /\ proxyPc = "loop"
    /\ proxyAttempts < ProxyMaxAttempts
    /\ proxyAttempts' = proxyAttempts + 1
    /\ proxyInFlight' = proxyInFlight + 1
    /\ proxyPc' = "awaitCall"
    /\ UNCHANGED <<proxyFile, proxyCalls, proxyWaits, proxyRes>>
    /\ UNCHANGED <<retryVars, pipelineVars, dateVars, uploadVars, webhookVars, appVars>>

\* geminiProxy.ts 231 and 286-291: the loop condition fails; 500.
ProxyAllAttemptsFailed ==
    /\ proxyPc = "loop"
    /\ ~(proxyAttempts < ProxyMaxAttempts)
    /\ proxyRes' = 500
    /\ proxyPc' = "responded"
    /\ UNCHANGED <<proxyFile, proxyAttempts, proxyCalls, proxyInFlight, proxyWaits>>
    /\ UNCHANGED <<retryVars, pipelineVars, dateVars, uploadVars, webhookVars, appVars>>

\* geminiProxy.ts 233-274: the call resolved and its text was parsed.
ProxyCallResolves ==
    /\ proxyPc = "awaitCall"
    /\ proxyInFlight' = proxyInFlight - 1
    /\ proxyCalls' = Append(proxyCalls, Succeeded)
    /\ proxyRes' = 200
    /\ proxyPc' = "responded"
    /\ UNCHANGED <<proxyFile, proxyAttempts, proxyWaits>>
    /\ UNCHANGED <<retryVars, pipelineVars, dateVars, uploadVars, webhookVars, appVars>>

\* geminiProxy.ts 275-283: the call rejected or its text could not be parsed;
\* the catch block up to the start of the wait or the end of the iteration.
ProxyCallRejects ==
    /\ proxyPc = "awaitCall"
    /\ \E error \in ProxyErrors :
        /\ proxyInFlight' = proxyInFlight - 1
        /\ proxyCalls' = Append(proxyCalls, Failed(error))
    /\ IF proxyAttempts < ProxyMaxAttempts
       THEN /\ proxyWaits' = Append(proxyWaits, ProxyWaitMs(proxyAttempts))
            /\ proxyPc' = "delay"
       ELSE /\ proxyPc' = "loop"
            /\ UNCHANGED proxyWaits
    /\ UNCHANGED <<proxyFile, proxyAttempts, proxyRes>>
    /\ UNCHANGED <<retryVars, pipelineVars, dateVars, uploadVars, webhookVars, appVars>>

\* geminiProxy.ts 281: the wait is over; back to the loop condition.
ProxyDelayElapses ==
    /\ proxyPc = "delay"
    /\ proxyPc' = "loop"
    /\ UNCHANGED <<proxyFile, proxyAttempts, proxyCalls, proxyInFlight, proxyWaits,
                   proxyRes>>
    /\ UNCHANGED <<retryVars, pipelineVars, dateVars, uploadVars, webhookVars, appVars>>

ProxyNext ==
    \/ ProxyReceive
    \/ ProxyCallModel
    \/ ProxyAllAttemptsFailed
    \/ ProxyCallResolves
    \/ ProxyCallRejects
    \/ ProxyDelayElapses

\* One retrying invocation: of callWithRetry, or of the handler's loop.
InvokerInit == RetryInit \/ ProxyInit

InvokerNext == RetryNext \/ ProxyNext

SpecInvoker == InvokerInit /\ [][InvokerNext]_vars

(***************************************************************************)
(* Claims about callWithRetry (checked under SpecRetry).                   *)
(***************************************************************************)
RetrySettled == rpc \in {"returned", "thrown"}

TransientFailure(c) ==
    ~c.ok /\ isTransientError(retryImpl, c.err, retryCodes)

\* The run is one of an operation that fails with a transient error on every call.
AlwaysTransient == \A i \in 1 .. Len(calls) : TransientFailure(calls[i])

\* The run is one of an operation whose first call fails with the 401 error.
FirstCallUnauthorized == Len(calls) >= 1 => calls[1] = Failed(E401)

\* The run is one of an operation that fails once transiently and then succeeds.
FailsOnceThenSucceeds ==
    /\ Len(calls) >= 1 => TransientFailure(calls[1])
    /\ Len(calls) >= 2 => calls[2].ok

\* C2: an operation that fails transiently on every call is called exactly
\* maxRetries times, then callWithRetry throws an error with attempts = maxRetries.
\* Stated for every budget of at least one attempt (maxRetries >= 1).
C2_ExhaustsExactlyMaxRetries ==
    (RetrySettled /\ AlwaysTransient /\ maxRetries >= 1) =>
        /\ rpc = "thrown"
        /\ Len(calls) = maxRetries
        /\ retryOutcome.hasAttempts
        /\ retryOutcome.attempts = maxRetries

\* C3: an operation whose first call fails with an authentication (401) error
\* makes callWithRetry throw after exactly one call and without any backoff
\* wait, for every value of maxRetries.
C3_AuthFailsAfterOneCall ==
    (RetrySettled /\ FirstCallUnauthorized) =>
        /\ rpc = "thrown"
        /\ Len(calls) = 1
        /\ nWaits = 0

\* C4 as claimed: an operation that fails once transiently and then succeeds
\* makes callWithRetry return after exactly two calls.  Stated for every
\* budget of at least one attempt (maxRetries >= 1).
C4_Original_ReturnsAfterTwoCalls ==
    (RetrySettled /\ FailsOnceThenSucceeds /\ maxRetries >= 1) =>
        /\ rpc = "returned"
        /\ Len(calls) = 2

\* C4 as amended: when the budget allows a second call (maxRetries >= 2), an
\* operation that fails once transiently and then succeeds makes callWithRetry
\* return after exactly two calls; and in every run a successful call is the
\* last call: nothing is in flight or called after it.
C4_ReturnsAfterTwoCalls ==
    /\ (RetrySettled /\ FailsOnceThenSucceeds /\ maxRetries >= 2) =>
            /\ rpc = "returned"
            /\ Len(calls) = 2
    /\ \A i \in 1 .. Len(calls) :
            calls[i].ok => (i = Len(calls) /\ rpc = "returned" /\ inFlight = 0)

C4_Witness ==
    /\ rpc = "returned"
    /\ maxRetries >= 2
    /\ Len(calls) = 2
    /\ TransientFailure(calls[1])
    /\ calls[2].ok
    /\ nWaits = 1

\* An error of none of the known classes: no transient or authentication
\* status, no code string, no marker text in its message.
UnknownError(e) ==
    /\ e.status \notin ({401, 403, 429, 503} \cup EffectiveCodes(retryImpl, retryCodes))
    /\ e.respStatus \notin ({401, 403, 429, 503} \cup EffectiveCodes(retryImpl, retryCodes))
    /\ e.code = ""
    /\ e.msg = {}

\* C12: an error of none of the known classes is treated as transient:
\* callWithRetry does not throw after a call that failed with such an error
\* while attempts remain (the call was not the last of the budget).
C12_UnknownErrorIsRetried ==
    \A i \in 1 .. Len(calls) :
        (~calls[i].ok /\ UnknownError(calls[i].err) /\ i < maxRetries) =>
            ~(rpc = "thrown" /\ i = Len(calls))

\* C13: whenever callWithRetry throws, the error thrown is the error of the
\* last call of the operation, with attempts set to the number of calls made.
C13_ThrowsTheLastErrorWithAttempts ==
    rpc = "thrown" =>
        /\ Len(calls) >= 1
        /\ ~calls[Len(calls)].ok
        /\ retryOutcome.kind = "rethrown"
        /\ retryOutcome.err = calls[Len(calls)].err
        /\ retryOutcome.hasAttempts
        /\ retryOutcome.attempts = Len(calls)

\* C21: the wait before each retry is max(E + J, R) milliseconds, with
\* E = baseDelayMs * 2^attemptIndex (attemptIndex 0 after the first failure),
\* a jitter 0 <= J < E, and R the Retry-After seconds of the failed call in
\* milliseconds (0 when absent); so the wait is at least E and at least R.
C21_WaitIsMaxOfBackoffAndRetryAfter ==
    rpc = "delay" =>
        LET E == BaseDelayMs * (2 ^ (Len(calls) - 1))
            R == calls[Len(calls)].err.retryAfter * 1000
        IN  /\ lastWait >= E
            /\ lastWait >= R
            /\ (lastWait = R /\ E <= R) \/ (lastWait < 2 * E)

\* The taxonomy in its priority order, and the message texts of each category.
TaxonomyOrder ==
    <<"AUTHENTICATION_ERROR", "RATE_LIMIT_ERROR", "NETWORK_ERROR",
      "INVALID_FILE_FORMAT", "CONTENT_POLICY_ERROR", "SERVICE_UNAVAILABLE",
      "UNKNOWN_ERROR">>

TaxonomyTexts ==
    <<{"API key", "authentication", "401"},
      {"quota", "rate limit", "429"},
      {"timeout", "ETIMEDOUT", "ECONNREFUSED", "network"},
      {"unsupported", "invalid format", "mime type"},
      {"content policy", "safety"},
      {"503", "service unavailable"},
      {}>>

MatchesCategory(e, k) == k = Len(TaxonomyOrder) \/ e.msg \cap TaxonomyTexts[k] # {}

FirstCategory(e) ==
    TaxonomyOrder[CHOOSE k \in 1 .. Len(TaxonomyOrder) :
                      /\ MatchesCategory(e, k)
                      /\ \A j \in 1 .. (k - 1) : ~MatchesCategory(e, j)]

\* An authentication failure: a 401 status or a credential text.
AuthenticationError(e) ==
    \/ e.status = 401
    \/ e.respStatus = 401
    \/ e.msg \cap (TaxonomyTexts[1] \cup {"unauthorized"}) # {}

\* An error that also matches RateLimit, Network or ServiceUnavailable.
MatchesTransientCategory(e) ==
    \/ e.status \in {429, 503}
    \/ e.respStatus \in {429, 503}
    \/ e.code \in transientStrings
    \/ e.msg \cap (TaxonomyTexts[2] \cup TaxonomyTexts[3] \cup TaxonomyTexts[6]
                    \cup {"unavailable", "timed out"}) # {}

\* The classifier gives every error the first category of the order it matches.
ClassifierFollowsTheOrder ==
    \A e \in Errors : categorizeError(e).category = FirstCategory(e)

\* C22: the classifier checks the categories in the order Authentication,
\* RateLimit, Network, InvalidInput, PolicyRejection, ServiceUnavailable,
\* Unknown, and an error that matches Authentication and a transient category
\* is terminal: the classifier marks it not retryable and callWithRetry throws
\* right after the call that failed with it.
C22_AuthenticationWinsOverTransient ==
    /\ ClassifierFollowsTheOrder
    /\ \A e \in Errors :
            (AuthenticationError(e) /\ MatchesTransientCategory(e)
             /\ categorizeError(e).category = "AUTHENTICATION_ERROR") =>
                ~categorizeError(e).isRetryable
    /\ \A i \in 1 .. Len(calls) :
            (~calls[i].ok /\ AuthenticationError(calls[i].err)
             /\ MatchesTransientCategory(calls[i].err)) =>
                (i = Len(calls) /\ rpc = "thrown")

\* The status codes an error carries (0: none).
StatusCodesOf(e) == {e.status, e.respStatus} \ {0}

\* The codes the caller listed in retryableStatusCodes ({} when not given).
ListedCodes == IF retryCodes.given THEN retryCodes.codes ELSE {}

\* C24: the retryableStatusCodes option only adds codes: whatever its value,
\* an error with status 429 or 503, or with a status listed in the option, is
\* transient: callWithRetry does not throw after a call that failed with it
\* while attempts remain.
C24_OptionOnlyAddsCodes ==
    \A i \in 1 .. Len(calls) :
        (/\ ~calls[i].ok
         /\ StatusCodesOf(calls[i].err) \cap ({429, 503} \cup ListedCodes) # {}
         /\ i < maxRetries) =>
            ~(rpc = "thrown" /\ i = Len(calls))

\* C25: for every options value, maxRetries = 0 or negative included,
\* callWithRetry calls the operation at least once: it never settles with the
\* fallback error 'Exceeded retry attempts' in place of the operation's own
\* result or error.
C25_OperationIsCalledAtLeastOnce ==
    RetrySettled =>
        /\ Len(calls) >= 1
        /\ retryOutcome.kind # "exceeded"

\* callWithRetry: a call is in flight only while the loop awaits it, after
\* every earlier call failed and one wait was made per earlier call.
SequentialCallWithRetry ==
    /\ inFlight \in {0, 1}
    /\ inFlight = 1 <=> rpc = "awaitFn"
    /\ rpc = "awaitFn" =>
            /\ \A i \in 1 .. Len(calls) : ~calls[i].ok
            /\ nWaits = Len(calls)
    /\ nWaits <= Len(calls)
    /\ nWaits > 0 => lastWait > 0

\* The same for the loop of the /api/extract-invoice handler.
SequentialProxyLoop ==
    /\ proxyInFlight \in {0, 1}
    /\ proxyInFlight = 1 <=> proxyPc = "awaitCall"
    /\ proxyPc = "awaitCall" =>
            /\ \A i \in 1 .. Len(proxyCalls) : ~proxyCalls[i].ok
            /\ Len(proxyWaits) = Len(proxyCalls)
    /\ Len(proxyWaits) <= Len(proxyCalls)
    /\ \A j \in 1 .. Len(proxyWaits) : proxyWaits[j] > 0

\* C23: within one retrying invocation (callWithRetry, or the retry loop of
\* the /api/extract-invoice handler) attempts are strictly sequential: at
\* most one call is in flight, an attempt starts only after the previous one
\* settled as a failure, and a backoff wait lies between two consecutive
\* attempts.
C23_AttemptsAreSequential ==
    /\ rpc # Unused => SequentialCallWithRetry
    /\ proxyPc # Unused => SequentialProxyLoop

C23_Witness ==
    /\ rpc = "awaitFn"
    /\ inFlight = 1
    /\ Len(calls) = 2
    /\ nWaits = 2

(***************************************************************************)
(* Strings: a string is the sequence of its characters.                    *)
(***************************************************************************)
WhiteSpace == {" ", "\t", "\n"}

RECURSIVE TrimStart(_)
TrimStart(s) ==
    IF s # << >> /\ Head(s) \in WhiteSpace THEN TrimStart(Tail(s)) ELSE s

RECURSIVE TrimEnd(_)
TrimEnd(s) ==
    IF s # << >> /\ s[Len(s)] \in WhiteSpace
    THEN TrimEnd(SubSeq(s, 1, Len(s) - 1))
    ELSE s

\* String.prototype.trim
Trim(s) == TrimEnd(TrimStart(s))

DigitChars == <<"0", "1", "2", "3", "4", "5", "6", "7", "8", "9">>

IsDigit(c) == \E i \in 1 .. Len(DigitChars) : DigitChars[i] = c

DigitVal(c) == (CHOOSE i \in 1 .. Len(DigitChars) : DigitChars[i] = c) - 1

AllDigits(s) == \A i \in 1 .. Len(s) : IsDigit(s[i])

\* The value of a sequence of decimal digits (parseInt(s, 10) on digits).
RECURSIVE DigitsValue(_)
DigitsValue(s) ==
    IF s = << >> THEN 0
    ELSE 10 * DigitsValue(SubSeq(s, 1, Len(s) - 1)) + DigitVal(s[Len(s)])

\* Number.prototype.toString of a natural number.
RECURSIVE NatToString(_)
NatToString(n) ==
    IF n < 10 THEN <<DigitChars[n + 1]>>
    ELSE NatToString(n \div 10) \o <<DigitChars[(n % 10) + 1]>>

(***************************************************************************)
(* JavaScript values.                                                      *)
(***************************************************************************)
Scale == 100

Undefined    == [t |-> "undefined"]
Null         == [t |-> "null"]
Bool(b)      == [t |-> "bool", b |-> b]
Num(h)       == [t |-> "num", n |-> h]           \* the finite number h / Scale
NonFinite(k) == [t |-> "nonfinite", k |-> k]     \* NaN, Infinity, -Infinity
Str(s)       == [t |-> "str", s |-> s]
Arr(a)       == [t |-> "arr", a |-> a]
Obj(f)       == [t |-> "obj", f |-> f]

NaN == NonFinite("NaN")

\* Boolean(v)
Truthy(v) ==
    CASE v.t = "undefined" -> FALSE
      [] v.t = "null"      -> FALSE
      [] v.t = "bool"      -> v.b
      [] v.t = "num"       -> v.n # 0
      [] v.t = "nonfinite" -> v.k # "NaN"
      [] v.t = "str"       -> v.s # << >>
      [] OTHER             -> TRUE

\* v?.k for the property names of the invoice model: only an object has them.
Get(v, k) ==
    IF v.t = "obj" /\ k \in DOMAIN v.f THEN v.f[k] ELSE Undefined

\* 'k in v' for a truthy value of typeof "object".
HasKey(v, k) == v.t = "obj" /\ k \in DOMAIN v.f

(***************************************************************************)
(* Exact arithmetic on JavaScript numbers: a number is num / den; den = 0  *)
(* stands for Infinity (num > 0), -Infinity (num < 0) and NaN (num = 0).   *)
(***************************************************************************)
Abs(x) == IF x < 0 THEN -x ELSE x

Sign(x) == IF x > 0 THEN 1 ELSE IF x < 0 THEN -1 ELSE 0

RECURSIVE GCD(_, _)
GCD(a, b) == IF b = 0 THEN Abs(a) ELSE GCD(b, a % Abs(b))

Reduce(n, d) ==
    IF d = 0 THEN [num |-> Sign(n), den |-> 0]
    ELSE LET g == GCD(n, d)
         IN  [num |-> Sign(d) * (n \div g), den |-> Abs(d) \div g]

RatMul(a, b) ==
    LET g1 == IF GCD(a.num, b.den) = 0 THEN 1 ELSE GCD(a.num, b.den)
        g2 == IF GCD(b.num, a.den) = 0 THEN 1 ELSE GCD(b.num, a.den)
    IN  Reduce((a.num \div g1) * (b.num \div g2), (a.den \div g2) * (b.den \div g1))

\* 1 / b: 1 / 0 is Infinity, 1 / Infinity is 0, 1 / NaN is NaN.
RatInverse(b) ==
    IF b.num = 0 THEN [num |-> (IF b.den = 0 THEN 0 ELSE 1), den |-> 0]
    ELSE [num |-> b.den * Sign(b.num), den |-> Abs(b.num)]

RatDiv(a, b) == RatMul(a, RatInverse(b))

RatAdd(a, b) == Reduce(a.num * b.den + b.num * a.den, a.den * b.den)

RatSub(a, b) == Reduce(a.num * b.den - b.num * a.den, a.den * b.den)

RatInt(k) == [num |-> k, den |-> 1]

\* The number a JavaScript number value holds.
ToRat(v) ==
    IF v.t = "num" THEN Reduce(v.n, Scale)
    ELSE [num |-> (IF v.k = "Infinity" THEN 1 ELSE IF v.k = "-Infinity" THEN -1 ELSE 0),
          den |-> 0]

\* The JavaScript number value of num / den, exact to 1 / Scale.
FromRat(r) ==
    IF r.den = 0
    THEN NonFinite(IF r.num > 0 THEN "Infinity" ELSE IF r.num < 0 THEN "-Infinity" ELSE "NaN")
    ELSE Num((r.num * Scale) \div r.den)

\* Math.round: the nearest integer, a half going up.
MathRound(r) == (2 * r.num + r.den) \div (2 * r.den)

\* Math.round(x * 100) / 100
Round2(r) ==
    IF r.den = 0 THEN FromRat(r) ELSE Num(MathRound(RatMul(r, RatInt(Scale))))

\* Number(s) for a string s: surrounding white space is ignored, the empty
\* string is 0, a decimal literal [+-]digits[.digits] is its value and
\* anything else is NaN.  Fractions of more than two digits are outside the
\* numbers of the model; no modelled input has one.
StringToNumber(s) ==
    LET t == Trim(s)
        signed == t # << >> /\ t[1] \in {"-", "+"}
        sgn == IF t # << >> /\ t[1] = "-" THEN -1 ELSE 1
        body == IF signed THEN Tail(t) ELSE t
        dots == {i \in 1 .. Len(body) : body[i] = "."}
        dot == IF dots = {} THEN Len(body) + 1 ELSE CHOOSE i \in dots : TRUE
        int == SubSeq(body, 1, dot - 1)
        frac == SubSeq(body, dot + 1, Len(body))
        fracValue == IF Len(frac) = 1 THEN 10 * DigitsValue(frac) ELSE DigitsValue(frac)
    IN  IF t = << >> THEN Num(0)
        ELSE IF t = <<"I", "n", "f", "i", "n", "i", "t", "y">> THEN NonFinite("Infinity")
        ELSE IF /\ Cardinality(dots) <= 1
                /\ AllDigits(int) /\ AllDigits(frac)
                /\ Len(int) + Len(frac) >= 1
                /\ Len(frac) <= 2
        THEN Num(sgn * (Scale * DigitsValue(int) + fracValue))
        ELSE NaN

(***************************************************************************)
(* normalizeInvoiceData (src/services/normalizeInvoiceData.ts, and the     *)
(* revision with the envelope in src/unnamed/part_009).                    *)
(***************************************************************************)
S_Lot       == <<"L", "o", "t">>
S_Premium   == <<"P", "r", "e", "m", "i", "u", "m">>
S_Surcharge == <<"S", "u", "r", "c", "h", "a", "r", "g", "e">>
S_VAT       == <<"V", "A", "T">>

\* types.ts 1-5: Object.values(LineType)
LineTypeValues == {S_Lot, S_Premium, S_Surcharge}

isLineType(value) == value.t = "str" /\ value.s \in LineTypeValues

toNumber(value, fallback) ==
    IF value.t = "num" THEN value
    ELSE IF value.t = "str" /\ Trim(value.s) # << >>
         THEN LET parsed == StringToNumber(value.s)
              IN  IF parsed.t = "num" THEN parsed ELSE fallback
         ELSE fallback

toNullableNumber(value) ==
    IF value.t \in {"null", "undefined"} THEN Null
    ELSE IF value.t = "num" THEN value
    ELSE IF value.t = "str" /\ Trim(value.s) # << >>
         THEN LET parsed == StringToNumber(value.s)
              IN  IF parsed.t = "num" THEN parsed ELSE Null
         ELSE Null

toStringValueUnchecked(value, fallback) ==
    IF value.t = "undefined" THEN fallback ELSE value
toStringValue(value, fallback) ==
    IF value.t = "str" THEN value ELSE fallback

toBoolean(value, fallback) ==
    IF value.t = "bool" THEN value ELSE fallback

normalizeLineItem(item) ==
    [ LineType    |-> IF isLineType(Get(item, "LineType"))
                      THEN Get(item, "LineType") ELSE Str(S_Lot),
      LotNumber   |-> toStringValue(Get(item, "LotNumber"), Str(<< >>)),
      Description |-> toStringValue(Get(item, "Description"), Str(<< >>)),
      Quantity    |-> toNumber(Get(item, "Quantity"), Num(1 * Scale)),
      UnitPrice   |-> toNumber(Get(item, "UnitPrice"), Num(0)),
      TaxType     |-> IF Truthy(Get(item, "TaxType")) /\ Get(item, "TaxType").t = "str"
                      THEN Get(item, "TaxType") ELSE Null,
      TaxRate     |-> toNullableNumber(Get(item, "TaxRate")),
      TaxAmount   |-> toNullableNumber(Get(item, "TaxAmount")),
      VatIncluded |-> toBoolean(Get(item, "VatIncluded"), Bool(FALSE)),
      LineTotal   |-> toNumber(Get(item, "LineTotal"), Num(0)) ]

\* Array.prototype.filter(Boolean)
RECURSIVE FilterBoolean(_)
FilterBoolean(a) ==
    IF a = << >> THEN << >>
    ELSE IF Truthy(Head(a)) THEN <<Head(a)>> \o FilterBoolean(Tail(a))
    ELSE FilterBoolean(Tail(a))

\* Array.prototype.map(normalizeLineItem)
MapNormalizeLineItem(a) == [i \in 1 .. Len(a) |-> normalizeLineItem(a[i])]

\* part_009 53-56: the payload the fields are read from.
invoicePayloadOfAlwaysUnwrapped(impl, p) == Get(p, "InvoiceData")
invoicePayloadOf(impl, p) ==
    IF impl = "envelope" /\ Truthy(p) /\ p.t \in {"obj", "arr"} /\ HasKey(p, "InvoiceData")
    THEN Get(p, "InvoiceData")
    ELSE p

normalizeInvoiceData(impl, p) ==
    LET invoicePayload == invoicePayloadOf(impl, p)
        items == Get(invoicePayload, "LineItems")
    IN  [ InvoiceNumber |-> toStringValue(Get(invoicePayload, "InvoiceNumber"), Str(<< >>)),
          InvoiceDate   |-> toStringValue(Get(invoicePayload, "InvoiceDate"), Str(<< >>)),
          SupplierName  |-> toStringValue(Get(invoicePayload, "SupplierName"), Str(<< >>)),
          TotalAmount   |-> toNumber(Get(invoicePayload, "TotalAmount"), Num(0)),
          Currency      |-> toStringValue(Get(invoicePayload, "Currency"), Str(<< >>)),
          LineItems     |-> IF items.t = "arr"
                            THEN MapNormalizeLineItem(FilterBoolean(items.a))
                            ELSE << >> ]

\* An InvoiceData as a JavaScript object (what JSON.stringify / JSON.parse or
\* passing the object on gives).
InvoiceAsValue(inv) ==
    Obj([inv EXCEPT !.LineItems =
            Arr([i \in 1 .. Len(inv.LineItems) |-> Obj(inv.LineItems[i])])])

\* { InvoiceData: p }
Envelope(p) == Obj([InvoiceData |-> p])

(***************************************************************************)
(* mapToXeroBill (src/services/xeroService.ts 13-93, and the revision      *)
(* without tax types at 176-227).                                          *)
(***************************************************************************)
\* v > 0 for a number or null (null > 0 is false).
IsPositive(v) ==
    \/ v.t = "num" /\ v.n > 0
    \/ v.t = "nonfinite" /\ v.k = "Infinity"

\* xeroService.ts 33-45: which of the three branches computes the pre-VAT amounts.
PreVatBranchVatIncludedFirst(item) ==
    IF Truthy(item.VatIncluded) /\ Truthy(item.TaxRate) /\ IsPositive(item.TaxRate)
    THEN "vatIncluded"
    ELSE IF Truthy(item.TaxAmount) /\ IsPositive(item.TaxAmount) THEN "taxAmount"
    ELSE "asIs"
PreVatBranch(item) ==
    IF Truthy(item.TaxAmount) /\ IsPositive(item.TaxAmount) THEN "taxAmount"
    ELSE IF Truthy(item.VatIncluded) /\ Truthy(item.TaxRate) /\ IsPositive(item.TaxRate)
    THEN "vatIncluded"
    ELSE "asIs"

\* xeroService.ts 35, 39, 44: preVatLineAmount before rounding.
preVatLineAmount(item) ==
    CASE PreVatBranch(item) = "taxAmount" ->
            RatSub(ToRat(item.LineTotal), ToRat(item.TaxAmount))
      [] PreVatBranch(item) = "vatIncluded" ->
            RatDiv(ToRat(item.LineTotal),
                   RatAdd(RatInt(1), RatDiv(ToRat(item.TaxRate), RatInt(100))))
      [] OTHER ->
            RatMul(ToRat(item.UnitPrice), ToRat(item.Quantity))

\* xeroService.ts 36, 40, 43: preVatUnitAmount before rounding.
preVatUnitAmount(item) ==
    IF PreVatBranch(item) = "asIs" THEN ToRat(item.UnitPrice)
    ELSE RatDiv(preVatLineAmount(item), ToRat(item.Quantity))

\* xeroService.ts 48: the rounded unit amount.
UnitAmountOf(item) == Round2(preVatUnitAmount(item))

\* xeroService.ts 49: the independently rounded line amount.
RoundedPreVatLineAmount(item) == Round2(preVatLineAmount(item))

\* xeroService.ts 53: calculatedLineAmount.
calculatedLineAmount(item) ==
    Round2(RatMul(ToRat(UnitAmountOf(item)), ToRat(item.Quantity)))

\* xeroService.ts 56-76: xeroTaxType.
xeroTaxType(item) ==
    IF item.LineType = Str(S_Lot) \/ item.LineType = Str(S_Premium)
    THEN "EXEMPTEXPENSES"
    ELSE IF item.TaxType = Str(S_VAT) /\ Truthy(item.TaxRate) /\ IsPositive(item.TaxRate)
    THEN (IF item.TaxRate = Num(20 * Scale) THEN "INPUT2"
          ELSE IF item.TaxRate = Num(5 * Scale) THEN "INPUT"
          ELSE "INPUT2")
    ELSE IF item.TaxRate = Num(0) \/ item.TaxAmount = Num(0)
    THEN "EXEMPTEXPENSES"
    ELSE "NONE"

\* xeroService.ts 84: the description, trimmed.
DescriptionOf(item) ==
    Trim(item.LineType.s \o <<" ", "-", " ">>
         \o (IF Truthy(item.LotNumber)
             THEN <<"L", "o", "t", " ", "#">> \o item.LotNumber.s ELSE << >>)
         \o <<" ", "-", " ">> \o item.Description.s)

\* xeroService.ts 83-90 and 218-224: the line of the bill.
BillLineTakingRoundedLine(impl, item, code) ==
    [ Description |-> DescriptionOf(item),
      Quantity    |-> item.Quantity,
      UnitAmount  |-> UnitAmountOf(item),
      AccountCode |-> code,
      LineAmount  |-> RoundedPreVatLineAmount(item),
      TaxType     |-> IF impl = "taxType" THEN xeroTaxType(item) ELSE "absent" ]
BillLine(impl, item, code) ==
    [ Description |-> DescriptionOf(item),
      Quantity    |-> item.Quantity,
      UnitAmount  |-> UnitAmountOf(item),
      AccountCode |-> code,
      LineAmount  |-> calculatedLineAmount(item),
      TaxType     |-> IF impl = "taxType" THEN xeroTaxType(item) ELSE "absent" ]

mapToXeroBill(impl, inv, code) ==
    [ Type           |-> "ACCPAY",
      Contact        |-> [Name |-> inv.SupplierName],
      DateString     |-> inv.InvoiceDate,
      DueDateString  |-> inv.InvoiceDate,
      InvoiceNumber  |-> inv.InvoiceNumber,
      CurrencyCode   |-> inv.Currency,
      Status         |-> "DRAFT",
      LineItems      |-> [i \in 1 .. Len(inv.LineItems) |->
                              BillLine(impl, inv.LineItems[i], code)] ]

(***************************************************************************)
(* The payloads of the model: what JSON.parse of the extraction response   *)
(* may give.                                                               *)
(***************************************************************************)
HeaderFields == {"InvoiceNumber", "InvoiceDate", "SupplierName", "TotalAmount", "Currency"}

ItemFields == {"LineType", "LotNumber", "Description", "Quantity", "UnitPrice",
               "TaxType", "TaxRate", "TaxAmount", "VatIncluded", "LineTotal"}

BaseHeader ==
    [ InvoiceNumber |-> Str(<<"A", "1">>),
      InvoiceDate   |-> Str(<<"2", "0", "/", "1", "1", "/", "2", "5">>),
      SupplierName  |-> Str(<<"S">>),
      TotalAmount   |-> Num(1240 * Scale),
      Currency      |-> Str(<<"G", "B", "P">>) ]

\* The two line items of the end-to-end scenario of the specification.
SurchargeItem ==
    [ LineType    |-> Str(S_Surcharge),
      LotNumber   |-> Str(<< >>),
      Description |-> Str(<<"f", "e", "e">>),
      Quantity    |-> Num(1 * Scale),
      UnitPrice   |-> Num(200 * Scale),
      TaxType     |-> Str(S_VAT),
      TaxRate     |-> Num(20 * Scale),
      TaxAmount   |-> Num(40 * Scale),
      VatIncluded |-> Bool(FALSE),
      LineTotal   |-> Num(240 * Scale) ]

LotItem ==
    [ LineType    |-> Str(S_Lot),
      LotNumber   |-> Str(<<"7">>),
      Description |-> Str(<<"v", "a", "s", "e">>),
      Quantity    |-> Num(1 * Scale),
      UnitPrice   |-> Num(1000 * Scale),
      TaxType     |-> Null,
      TaxRate     |-> Num(0),
      TaxAmount   |-> Num(0),
      VatIncluded |-> Bool(FALSE),
      LineTotal   |-> Num(1000 * Scale) ]

\* An invoice-shaped object: the header fields and a LineItems value.
MkInvoice(header, lineItems) ==
    Obj([ InvoiceNumber |-> header.InvoiceNumber,
          InvoiceDate   |-> header.InvoiceDate,
          SupplierName  |-> header.SupplierName,
          TotalAmount   |-> header.TotalAmount,
          Currency      |-> header.Currency,
          LineItems     |-> lineItems ])

\* The values a field of untyped JSON-ish data may hold.
RawValues ==
    { Undefined, Null, Bool(TRUE), Bool(FALSE), Num(0), Num(250), NaN,
      NonFinite("Infinity"), Str(<< >>), Str(<<" ">>), Str(<<"1", "2">>),
      Str(<<" ", "7", " ">>), Str(<<"2", ".", "5">>), Str(<<"-", "3">>),
      Str(<<"a", "b", "c">>), Str(S_Premium), Arr(<< >>), Obj([x \in {} |-> Null]) }

\* One field of the header, or of the single line item, holds a raw value.
OneFieldPayloads ==
    { MkInvoice([BaseHeader EXCEPT ![f] = r], Arr(<<Obj(SurchargeItem)>>)) :
        f \in HeaderFields, r \in RawValues }
    \cup
    { MkInvoice(BaseHeader, Arr(<<Obj([SurchargeItem EXCEPT ![f] = r])>>)) :
        f \in ItemFields, r \in RawValues }

\* Every field holds the same raw value.
AllFieldsPayloads ==
    { MkInvoice([f \in HeaderFields |-> r], Arr(<<Obj([f \in ItemFields |-> r])>>)) :
        r \in RawValues }

\* The entries of a LineItems array.
ArrayEntries ==
    { Null, Undefined, Num(0), Num(500), Str(<< >>), Str(<<"x">>), Bool(FALSE),
      Obj(SurchargeItem), Obj(LotItem) }

LineItemsValues ==
    { Undefined, Null, Str(<<"x">>), Num(100), Obj(SurchargeItem) }
    \cup { Arr(a) : a \in UNION { [1 .. n -> ArrayEntries] : n \in 0 .. MaxItems } }

ShapePayloads == { MkInvoice(BaseHeader, li) : li \in LineItemsValues }

\* One typed line item, its fields ranging over the values the tax rules
\* and the pre-VAT arithmetic tell apart.
TypedItems ==
    { [ LineType    |-> Str(lt),
        LotNumber   |-> Str(<<"7">>),
        Description |-> Str(<<"d">>),
        Quantity    |-> Num(q),
        UnitPrice   |-> Num(up),
        TaxType     |-> tt,
        TaxRate     |-> tr,
        TaxAmount   |-> ta,
        VatIncluded |-> Bool(vi),
        LineTotal   |-> Num(lt2) ] :
        lt \in {S_Lot, S_Premium, S_Surcharge, <<"F", "e", "e">>},
        q \in {0, 1 * Scale, 3 * Scale},
        up \in {2 * Scale, 10 * Scale},
        tt \in {Null, Str(S_VAT)},
        tr \in {Null, Num(0), Num(5 * Scale), Num(20 * Scale)},
        ta \in {Null, Num(0), Num(40), Num(2 * Scale)},
        vi \in BOOLEAN,
        lt2 \in {2 * Scale, 240, 10 * Scale} }

TypedPayloads == { MkInvoice(BaseHeader, Arr(<<Obj(it)>>)) : it \in TypedItems }

OtherPayloads ==
    { Undefined, Null, Num(500), Str(<<"a", "b", "c">>), Bool(TRUE), Arr(<< >>),
      Obj([x \in {} |-> Null]),
      MkInvoice(BaseHeader, Arr(<<Obj(LotItem), Obj(SurchargeItem)>>)),
      Envelope(MkInvoice(BaseHeader, Arr(<<Obj(LotItem), Obj(SurchargeItem)>>))),
      Envelope(Null), Envelope(Undefined), Envelope(Str(<<"x">>)) }

Payloads ==
    OneFieldPayloads \cup AllFieldsPayloads \cup ShapePayloads \cup TypedPayloads
    \cup OtherPayloads

\* The account codes given to uploadBillToXero.
AccountCodes == { << >>, <<" ", " ">>, <<"4", "2", "9">>, <<" ", "4", "2", "9", " ">> }

(***************************************************************************)
(* The pipeline: extraction, normalisation, upload.                        *)
(***************************************************************************)
Pending == [pending |-> TRUE]

PipelineInit ==
    /\ normalizerImpl \in {"plain", "envelope"}
    /\ mapperImpl \in {"taxType", "noTaxType"}
    /\ payload \in Payloads
    /\ ppc = "extracted"
    /\ invoiceData = Pending
    /\ wrappedData = Pending
    /\ renormalized = Pending
    /\ accountCode = << >>
    /\ bill = Pending
    /\ httpRequests = << >>
    /\ uploadResult = "pending"
    /\ RetryUnused
    /\ DateUnused
    /\ UploadUnused
    /\ ProxyUnused
    /\ WebhookUnused
    /\ AppUnused

\* part_008 105: extractInvoiceData returns normalizeInvoiceData(parsed).
Normalize ==
    /\ ppc = "extracted"
    /\ invoiceData' = normalizeInvoiceData(normalizerImpl, payload)
    /\ ppc' = "normalized"
    /\ UNCHANGED <<normalizerImpl, mapperImpl, payload, wrappedData, renormalized,
                   accountCode, bill, httpRequests, uploadResult>>
    /\ UNCHANGED <<retryVars, dateVars, uploadVars, proxyVars, webhookVars, appVars>>

\* normalizeInvoiceData applied to the same payload inside an envelope.
NormalizeWrapped ==
    /\ ppc = "normalized"
    /\ wrappedData' = normalizeInvoiceData(normalizerImpl, Envelope(payload))
    /\ ppc' = "wrapped"
    /\ UNCHANGED <<normalizerImpl, mapperImpl, payload, invoiceData, renormalized,
                   accountCode, bill, httpRequests, uploadResult>>
    /\ UNCHANGED <<retryVars, dateVars, uploadVars, proxyVars, webhookVars, appVars>>

\* normalizeInvoiceData applied to its own result.
NormalizeAgain ==
    /\ ppc = "wrapped"
    /\ renormalized' = normalizeInvoiceData(normalizerImpl, InvoiceAsValue(invoiceData))
    /\ ppc' = "ready"
    /\ UNCHANGED <<normalizerImpl, mapperImpl, payload, invoiceData, wrappedData,
                   accountCode, bill, httpRequests, uploadResult>>
    /\ UNCHANGED <<retryVars, dateVars, uploadVars, proxyVars, webhookVars, appVars>>

\* xeroService.ts 105: !accountCode.trim()
IsBlankNoTrim(code) == code = << >>
IsBlank(code) == Trim(code) = << >>

\* xeroService.ts 102-124: uploadBillToXero up to the fetch.
UploadBillToXero ==
    /\ ppc = "ready"
    /\ \E code \in AccountCodes :
        /\ accountCode' = code
        /\ IF IsBlank(code)
           THEN /\ uploadResult' = "Xero Account Code is required."
                /\ ppc' = "settled"
                /\ UNCHANGED <<bill, httpRequests>>
           ELSE /\ bill' = mapToXeroBill(mapperImpl, invoiceData, code)
                /\ httpRequests' = Append(httpRequests, bill')
                /\ ppc' = "awaitResponse"
                /\ UNCHANGED uploadResult
    /\ UNCHANGED <<normalizerImpl, mapperImpl, payload, invoiceData, wrappedData,
                   renormalized>>
    /\ UNCHANGED <<retryVars, dateVars, uploadVars, proxyVars, webhookVars, appVars>>

\* xeroService.ts 126-133: the response of the proxy arrives.
ProxyResponds ==
    /\ ppc = "awaitResponse"
    /\ \E ok \in BOOLEAN :
        uploadResult' = IF ok THEN "uploaded" ELSE "Failed to upload bill via proxy."
    /\ ppc' = "settled"
    /\ UNCHANGED <<normalizerImpl, mapperImpl, payload, invoiceData, wrappedData,
                   renormalized, accountCode, bill, httpRequests>>
    /\ UNCHANGED <<retryVars, dateVars, uploadVars, proxyVars, webhookVars, appVars>>

PipelineNext ==
    Normalize \/ NormalizeWrapped \/ NormalizeAgain \/ UploadBillToXero \/ ProxyResponds

SpecPipeline == PipelineInit /\ [][PipelineNext]_vars

(***************************************************************************)
(* Claims about normalizeInvoiceData, mapToXeroBill and uploadBillToXero   *)
(* (checked under SpecPipeline).                                           *)
(***************************************************************************)
Normalized == ppc # "extracted"
Mapped == bill # Pending

\* C1: every line of the bill with Quantity > 0 has
\* LineAmount = round2(UnitAmount * Quantity), whichever branch computed the
\* pre-VAT amounts.
C1_LineAmountIsUnitAmountTimesQuantity ==
    Mapped =>
        \A i \in 1 .. Len(bill.LineItems) :
            LET line == bill.LineItems[i]
            IN  IsPositive(line.Quantity) =>
                    line.LineAmount =
                        Round2(RatMul(ToRat(line.UnitAmount), ToRat(line.Quantity)))

\* A bill line of the taxAmount branch whose recomputed LineAmount differs
\* from the independently rounded pre-VAT line amount.
C1_Witness ==
    /\ Mapped
    /\ \E i \in 1 .. Len(bill.LineItems) :
        /\ IsPositive(bill.LineItems[i].Quantity)
        /\ PreVatBranch(invoiceData.LineItems[i]) = "taxAmount"
        /\ bill.LineItems[i].LineAmount.t = "num"
        /\ bill.LineItems[i].LineAmount # RoundedPreVatLineAmount(invoiceData.LineItems[i])

IsStringValue(v) == v.t = "str"
IsNumberValue(v) == v.t = "num"
IsBooleanValue(v) == v.t = "bool"

CanonicalLineItem(it) ==
    /\ DOMAIN it = ItemFields
    /\ IsStringValue(it.LineType) /\ it.LineType.s \in {S_Lot, S_Premium, S_Surcharge}
    /\ IsStringValue(it.LotNumber)
    /\ IsStringValue(it.Description)
    /\ IsNumberValue(it.Quantity)
    /\ IsNumberValue(it.UnitPrice)
    /\ it.TaxType = Null \/ IsStringValue(it.TaxType)
    /\ it.TaxRate = Null \/ IsNumberValue(it.TaxRate)
    /\ it.TaxAmount = Null \/ IsNumberValue(it.TaxAmount)
    /\ IsBooleanValue(it.VatIncluded)
    /\ IsNumberValue(it.LineTotal)

CanonicalInvoice(inv) ==
    /\ DOMAIN inv = HeaderFields \cup {"LineItems"}
    /\ IsStringValue(inv.InvoiceNumber)
    /\ IsStringValue(inv.InvoiceDate)
    /\ IsStringValue(inv.SupplierName)
    /\ IsNumberValue(inv.TotalAmount)
    /\ IsStringValue(inv.Currency)
    /\ \A i \in 1 .. Len(inv.LineItems) : CanonicalLineItem(inv.LineItems[i])

\* A string that is read as a finite number.
NumericString(raw) ==
    raw.t = "str" /\ Trim(raw.s) # << >> /\ StringToNumber(raw.s).t = "num"

\* The default a field takes when the raw value is absent or of another type
\* (a numeric string in a numeric field is parsed, any other string is
\* mistyped).
TakesDefault(raw, out, kind, default) ==
    CASE kind = "str"  -> (raw.t # "str" => out = default)
      [] kind = "bool" -> (raw.t # "bool" => out = default)
      [] kind = "num"  -> ((raw.t # "num" /\ ~NumericString(raw)) => out = default)
      [] OTHER         -> TRUE

HeaderDefaults(raw, inv) ==
    /\ TakesDefault(Get(raw, "InvoiceNumber"), inv.InvoiceNumber, "str", Str(<< >>))
    /\ TakesDefault(Get(raw, "InvoiceDate"), inv.InvoiceDate, "str", Str(<< >>))
    /\ TakesDefault(Get(raw, "SupplierName"), inv.SupplierName, "str", Str(<< >>))
    /\ TakesDefault(Get(raw, "Currency"), inv.Currency, "str", Str(<< >>))
    /\ TakesDefault(Get(raw, "TotalAmount"), inv.TotalAmount, "num", Num(0))
    /\ (Get(raw, "LineItems").t # "arr" => inv.LineItems = << >>)

ItemDefaults(raw, it) ==
    /\ TakesDefault(Get(raw, "LotNumber"), it.LotNumber, "str", Str(<< >>))
    /\ TakesDefault(Get(raw, "Description"), it.Description, "str", Str(<< >>))
    /\ TakesDefault(Get(raw, "Quantity"), it.Quantity, "num", Num(Scale))
    /\ TakesDefault(Get(raw, "UnitPrice"), it.UnitPrice, "num", Num(0))
    /\ TakesDefault(Get(raw, "LineTotal"), it.LineTotal, "num", Num(0))
    /\ TakesDefault(Get(raw, "VatIncluded"), it.VatIncluded, "bool", Bool(FALSE))
    /\ (Get(raw, "LineType") \notin {Str(S_Lot), Str(S_Premium), Str(S_Surcharge)}
            => it.LineType = Str(S_Lot))
    /\ (Get(raw, "TaxType").t # "str" => it.TaxType = Null)
    /\ TakesDefault(Get(raw, "TaxRate"), it.TaxRate, "num", Null)
    /\ TakesDefault(Get(raw, "TaxAmount"), it.TaxAmount, "num", Null)

\* C5: for every payload normalizeInvoiceData returns an InvoiceData whose
\* fields all have their canonical type (TaxType, TaxRate and TaxAmount may be
\* null), absent or mistyped fields taking the defaults.  The line items are
\* compared with the raw entries when no entry was dropped.
C5_NormalizeIsTotalAndCanonical ==
    Normalized =>
        LET raw == invoicePayloadOf(normalizerImpl, payload)
            rawItems == Get(raw, "LineItems")
        IN  /\ CanonicalInvoice(invoiceData)
            /\ HeaderDefaults(raw, invoiceData)
            /\ (rawItems.t = "arr" /\ Len(rawItems.a) = Len(invoiceData.LineItems)) =>
                    \A i \in 1 .. Len(rawItems.a) :
                        ItemDefaults(rawItems.a[i], invoiceData.LineItems[i])

\* A payload whose only line item has every field mistyped (a boolean), and
\* the defaults it got.
C5_Witness ==
    /\ Normalized
    /\ payload.t = "obj"
    /\ Get(payload, "InvoiceNumber") = Bool(TRUE)
    /\ Get(payload, "LineItems").t = "arr"
    /\ Len(invoiceData.LineItems) = 1
    /\ Get(Get(payload, "LineItems").a[1], "Quantity") = Bool(TRUE)
    /\ invoiceData.InvoiceNumber = Str(<< >>)
    /\ invoiceData.LineItems[1].Quantity = Num(Scale)
    /\ invoiceData.LineItems[1].LineType = Str(S_Lot)
    /\ invoiceData.LineItems[1].TaxRate = Null

\* C6: normalizeInvoiceData(normalizeInvoiceData(x)) = normalizeInvoiceData(x).
C6_NormalizeIsIdempotent ==
    ppc \in {"ready", "awaitResponse", "settled"} => renormalized = invoiceData

\* A payload that normalisation changed, normalised twice.
C6_Witness ==
    /\ ppc = "ready"
    /\ Len(invoiceData.LineItems) >= 1
    /\ InvoiceAsValue(invoiceData) # invoicePayloadOf(normalizerImpl, payload)
    /\ \E i \in 1 .. Len(invoiceData.LineItems) : invoiceData.LineItems[i].TaxAmount = Null
    /\ renormalized = invoiceData

\* An invoice-shaped object: an object that is not itself an envelope.
InvoiceShaped(p) == p.t = "obj" /\ ~HasKey(p, "InvoiceData")

\* C7: for every invoice-shaped object p, normalizeInvoiceData({InvoiceData: p})
\* equals normalizeInvoiceData(p).
C7_EnvelopeEqualsBare ==
    (InvoiceShaped(payload) /\ ppc \notin {"extracted", "normalized"}) =>
        wrappedData = invoiceData

\* round2(UnitPrice * 0.20)
TwentyPercentOf(unitPrice) ==
    Round2(RatMul(ToRat(unitPrice), [num |-> 20, den |-> 100]))

TaxInvariant(it) ==
    /\ it.LineType \in {Str(S_Lot), Str(S_Premium)} =>
            /\ it.TaxAmount = Num(0)
            /\ it.LineTotal = it.UnitPrice
    /\ it.LineType = Str(S_Surcharge) =>
            /\ it.TaxAmount = TwentyPercentOf(it.UnitPrice)
            /\ it.TaxAmount.t = "num"
            /\ it.LineTotal = Num(it.UnitPrice.n + it.TaxAmount.n)

\* C8: every line item of an InvoiceData that reaches mapToXeroBill through
\* extraction and normalizeInvoiceData satisfies the auction-house tax invariant.
C8_MappedItemsSatisfyTaxInvariant ==
    Mapped =>
        \A i \in 1 .. Len(invoiceData.LineItems) : TaxInvariant(invoiceData.LineItems[i])

AllWhiteSpace(code) == \A i \in 1 .. Len(code) : code[i] \in WhiteSpace

\* C9: with an account code that is empty or all white space uploadBillToXero
\* fails at once, maps no bill and sends no request; with any other account
\* code every line of the bill sent carries exactly that code.
C9_BlankAccountCodeFailsBeforeMapping ==
    ppc \in {"awaitResponse", "settled"} =>
        IF AllWhiteSpace(accountCode)
        THEN /\ ppc = "settled"
             /\ uploadResult = "Xero Account Code is required."
             /\ bill = Pending
             /\ httpRequests = << >>
        ELSE /\ Mapped
             /\ httpRequests = <<bill>>
             /\ \A i \in 1 .. Len(bill.LineItems) :
                    bill.LineItems[i].AccountCode = accountCode

\* A white-space account code refused for an invoice that has line items.
C9_Witness ==
    /\ ppc = "settled"
    /\ accountCode = <<" ", " ">>
    /\ Len(invoiceData.LineItems) >= 1
    /\ uploadResult = "Xero Account Code is required."
    /\ bill = Pending
    /\ httpRequests = << >>

NotNullish(e) == e \notin {Null, Undefined}

\* C14: a LineItems value that is not an array gives no line items; of an
\* array exactly the null and undefined entries are dropped, every other
\* entry giving one line item, in the order of the input.
C14_OnlyNullishEntriesAreDropped ==
    Normalized =>
        LET rawItems == Get(invoicePayloadOf(normalizerImpl, payload), "LineItems")
            kept == IF rawItems.t = "arr" THEN SelectSeq(rawItems.a, NotNullish)
                    ELSE << >>
        IN  /\ Len(invoiceData.LineItems) = Len(kept)
            /\ \A i \in 1 .. Len(kept) :
                  invoiceData.LineItems[i] = normalizeLineItem(kept[i])

\* The raw line items of the payload, when each gave one line of the bill.
RawItemsOfBill ==
    LET rawItems == Get(invoicePayloadOf(normalizerImpl, payload), "LineItems")
    IN  IF Mapped /\ rawItems.t = "arr" /\ Len(rawItems.a) = Len(bill.LineItems)
        THEN rawItems.a ELSE << >>

\* C16: a line item whose raw line type is none of Lot, Premium, Surcharge is
\* taxed as a Surcharge: after normalizeInvoiceData and mapToXeroBill its
\* line carries the 20% purchase-VAT code, not the no-tax code.
C16_UnknownLineTypeIsTaxed ==
    \A i \in 1 .. Len(RawItemsOfBill) :
        (/\ RawItemsOfBill[i].t = "obj"
         /\ Get(RawItemsOfBill[i], "LineType").t = "str"
         /\ Get(RawItemsOfBill[i], "LineType") \notin
                {Str(S_Lot), Str(S_Premium), Str(S_Surcharge)})
        => bill.LineItems[i].TaxType = "INPUT2"

\* The pre-tax line amount by the first rule that applies.
RuleOne(item) == item.TaxAmount.t = "num" /\ item.TaxAmount.n > 0

RuleTwo(item) ==
    item.VatIncluded = Bool(TRUE) /\ item.TaxRate.t = "num" /\ item.TaxRate.n > 0

LineTotalLessTax(item) == RatSub(ToRat(item.LineTotal), ToRat(item.TaxAmount))

LineTotalNetOfRate(item) ==
    RatDiv(ToRat(item.LineTotal),
           RatAdd(RatInt(1), RatDiv(ToRat(item.TaxRate), RatInt(100))))

PreTaxLineAmount(item) ==
    IF RuleOne(item) THEN LineTotalLessTax(item)
    ELSE IF RuleTwo(item) THEN LineTotalNetOfRate(item)
    ELSE RatMul(ToRat(item.UnitPrice), ToRat(item.Quantity))

PreTaxUnitAmount(item) == Round2(RatDiv(PreTaxLineAmount(item), ToRat(item.Quantity)))

\* C20 as claimed: every line of the bill has
\* UnitAmount = round2(preTaxLineAmount / Quantity), the pre-tax line amount
\* being LineTotal - TaxAmount when TaxAmount > 0, else
\* LineTotal / (1 + TaxRate/100) when VatIncluded and TaxRate > 0, else
\* UnitPrice * Quantity.
C20_Original_UnitAmountFromPreTaxLineAmount ==
    Mapped =>
        \A i \in 1 .. Len(bill.LineItems) :
            bill.LineItems[i].UnitAmount = PreTaxUnitAmount(invoiceData.LineItems[i])

\* C20 as amended: the same for every line whose Quantity is not 0; a line of
\* the third rule with Quantity 0 has UnitAmount = round2(UnitPrice).
C20_UnitAmountFromPreTaxLineAmount ==
    Mapped =>
        \A i \in 1 .. Len(bill.LineItems) :
            LET item == invoiceData.LineItems[i]
            IN  IF item.Quantity # Num(0) \/ RuleOne(item) \/ RuleTwo(item)
                THEN bill.LineItems[i].UnitAmount = PreTaxUnitAmount(item)
                ELSE bill.LineItems[i].UnitAmount = Round2(ToRat(item.UnitPrice))

\* A line with TaxAmount > 0, VatIncluded and TaxRate > 0, for which the
\* first two rules give different amounts: the first was taken.
C20_Witness ==
    /\ Mapped
    /\ \E i \in 1 .. Len(bill.LineItems) :
        LET item == invoiceData.LineItems[i]
        IN  /\ RuleOne(item) /\ RuleTwo(item)
            /\ item.Quantity = Num(3 * Scale)
            /\ Round2(RatDiv(LineTotalLessTax(item), ToRat(item.Quantity)))
                 # Round2(RatDiv(LineTotalNetOfRate(item), ToRat(item.Quantity)))
            /\ bill.LineItems[i].UnitAmount =
                 Round2(RatDiv(LineTotalLessTax(item), ToRat(item.Quantity)))

\* A Surcharge that satisfies the tax invariant with a positive tax amount.
TaxedSurcharge(item) ==
    /\ item.LineType = Str(S_Surcharge)
    /\ item.UnitPrice.t = "num"
    /\ item.TaxAmount.t = "num"
    /\ item.TaxAmount = TwentyPercentOf(item.UnitPrice)
    /\ item.TaxAmount.n > 0
    /\ item.LineTotal = Num(item.UnitPrice.n + item.TaxAmount.n)

\* C26: for every Surcharge that satisfies the tax invariant and every
\* Quantity >= 1, the line of the bill has UnitAmount = UnitPrice: the unit
\* amount submitted is the pre-tax unit price also when Quantity > 1.
C26_SurchargeUnitAmountIsUnitPrice ==
    Mapped =>
        \A i \in 1 .. Len(bill.LineItems) :
            LET item == invoiceData.LineItems[i]
            IN  (/\ TaxedSurcharge(item)
                 /\ item.Quantity.t = "num"
                 /\ item.Quantity.n >= Scale) =>
                    bill.LineItems[i].UnitAmount = item.UnitPrice

(***************************************************************************)
(* The App component (src/unnamed/part_001) with the JsonViewer            *)
(* (components/JsonViewer.tsx) and XeroIntegration (part_004 199-230) it   *)
(* renders, and extractInvoiceData (part_008 58-106).                      *)
(***************************************************************************)
\* JSON.parse(JSON.stringify(v)): properties holding undefined are left out,
\* undefined array entries and non-finite numbers become null.
RECURSIVE JsonRoundTrip(_)
JsonRoundTrip(v) ==
    CASE v.t \in {"nonfinite", "undefined"} -> Null
      [] v.t = "arr" -> Arr([i \in 1 .. Len(v.a) |-> JsonRoundTrip(v.a[i])])
      [] v.t = "obj" -> Obj([k \in {x \in DOMAIN v.f : v.f[x].t # "undefined"} |->
                                JsonRoundTrip(v.f[k])])
      [] OTHER -> v

\* What the extraction endpoint may answer with.
AppPayloads ==
    { MkInvoice(BaseHeader, Arr(<<Obj(LotItem), Obj(SurchargeItem)>>)) }

\* part_008 105: the InvoiceData extractInvoiceData resolves with.
ExtractedInvoiceData(impl, parsed) == InvoiceAsValue(normalizeInvoiceData(impl, parsed))

\* The text of a JsonViewer.
InvalidJson == [valid |-> FALSE, value |-> Null]
JsonText(v) == [valid |-> TRUE, value |-> v]

\* JsonViewer.tsx 15-19: JSON.stringify(data, null, 2) for data = { InvoiceData: d }.
StringifiedData(d) == JsonText(JsonRoundTrip(Envelope(d)))

\* An object without one of its properties, and with one property replaced.
WithoutKey(v, k) == Obj([x \in DOMAIN v.f \ {k} |-> v.f[x]])
WithKey(v, k, w) == Obj([x \in DOMAIN v.f \cup {k} |-> IF x = k THEN w ELSE v.f[x]])

\* JsonViewer.tsx 23-26: the texts the user may leave in the textarea when the
\* data shown is d: broken JSON, 'null', '{}', the text unchanged, the total
\* put in quotes, the LineItems property deleted.
EditedTexts(d) ==
    { InvalidJson,
      JsonText(Null),
      JsonText(Obj([x \in {} |-> Null])),
      StringifiedData(d) }
    \cup (IF d.t = "obj"
          THEN { JsonText(Envelope(WithKey(d, "TotalAmount", Str(<<"1", "2">>)))),
                 JsonText(Envelope(WithoutKey(d, "LineItems"))) }
          ELSE {})

\* The text of a JsonViewer that is not mounted.
NoText == [valid |-> FALSE, value |-> Undefined]

\* part_001 52-57: the item of a file just selected.
NewItem == [data |-> Null, error |-> Null, isProcessing |-> FALSE]

S_ExtractionFailed == <<"f", "a", "i", "l", "e", "d">>

AppInit ==
    /\ appNormalizerImpl \in {"plain", "envelope"}
    /\ batchMode = FALSE
    /\ imageFile = FALSE
    /\ extractedData = Null
    /\ isLoading = FALSE
    /\ appError = FALSE
    /\ invoiceItems = << >>
    /\ apc = "idle"
    /\ extractIndex = 0
    /\ isEditing = FALSE
    /\ editIndex = 0
    /\ jsonString = NoText
    /\ jsonError = FALSE
    /\ handedToXero = Undefined
    /\ RetryUnused
    /\ PipelineUnused
    /\ DateUnused
    /\ UploadUnused
    /\ ProxyUnused
    /\ WebhookUnused

\* The JsonViewer in use is unmounted: its state is lost.
ViewerReset ==
    /\ isEditing' = FALSE
    /\ editIndex' = 0
    /\ jsonString' = NoText
    /\ jsonError' = FALSE

\* part_001 48-60 and 154: files selected in batch mode.
HandleFileChangeBatch ==
    /\ ~isLoading
    /\ \E n \in 1 .. MaxFiles : invoiceItems' = [k \in 1 .. n |-> NewItem]
    /\ batchMode' = TRUE
    /\ imageFile' = FALSE
    /\ extractedData' = Null
    /\ appError' = FALSE
    /\ ViewerReset
    /\ UNCHANGED <<appNormalizerImpl, isLoading, apc, extractIndex, handedToXero>>
    /\ UNCHANGED <<retryVars, pipelineVars, dateVars, uploadVars, proxyVars, webhookVars>>

\* part_001 61-74 and 154: one file selected.
HandleFileChangeSingle ==
    /\ ~isLoading
    /\ batchMode' = FALSE
    /\ invoiceItems' = << >>
    /\ imageFile' = TRUE
    /\ extractedData' = Null
    /\ appError' = FALSE
    /\ ViewerReset
    /\ UNCHANGED <<appNormalizerImpl, isLoading, apc, extractIndex, handedToXero>>
    /\ UNCHANGED <<retryVars, pipelineVars, dateVars, uploadVars, proxyVars, webhookVars>>

\* part_001 135-148: the batch mode checkbox.
ToggleBatchMode ==
    /\ ~isLoading
    /\ batchMode' = ~batchMode
    /\ IF batchMode
       THEN /\ invoiceItems' = << >>
            /\ UNCHANGED <<imageFile, extractedData>>
       ELSE /\ imageFile' = FALSE
            /\ extractedData' = Null
            /\ UNCHANGED invoiceItems
    /\ ViewerReset
    /\ UNCHANGED <<appNormalizerImpl, isLoading, appError, apc, extractIndex,
                   handedToXero>>
    /\ UNCHANGED <<retryVars, pipelineVars, dateVars, uploadVars, proxyVars, webhookVars>>

\* part_001 189: the Extract button is enabled.
ExtractEnabled == (imageFile \/ Len(invoiceItems) > 0) /\ ~isLoading

\* part_001 78-81: handleExtract in batch mode, up to the loop.
HandleExtractBatch ==
    /\ apc = "idle"
    /\ ExtractEnabled
    /\ batchMode /\ Len(invoiceItems) > 0
    /\ isLoading' = TRUE
    /\ appError' = FALSE
    /\ extractIndex' = 0
    /\ apc' = "batchLoop"
    /\ ViewerReset
    /\ UNCHANGED <<appNormalizerImpl, batchMode, imageFile, extractedData,
                   invoiceItems, handedToXero>>
    /\ UNCHANGED <<retryVars, pipelineVars, dateVars, uploadVars, proxyVars, webhookVars>>

\* part_001 83-89: the loop condition holds; the item is marked and
\* extractInvoiceData is called.
BatchItemStarts ==
    /\ apc = "batchLoop"
    /\ extractIndex < Len(invoiceItems)
    /\ invoiceItems' = [invoiceItems EXCEPT ![extractIndex + 1].isProcessing = TRUE]
    /\ apc' = "batchAwait"
    /\ UNCHANGED <<appNormalizerImpl, batchMode, imageFile, extractedData, isLoading,
                   appError, extractIndex, isEditing, editIndex, jsonString,
                   jsonError, handedToXero>>
    /\ UNCHANGED <<retryVars, pipelineVars, dateVars, uploadVars, proxyVars, webhookVars>>

\* part_001 89-92: extractInvoiceData resolved.
BatchItemResolves ==
    /\ apc = "batchAwait"
    /\ \E parsed \in AppPayloads :
        invoiceItems' =
            [invoiceItems EXCEPT ![extractIndex + 1] =
                [@ EXCEPT !.data = ExtractedInvoiceData(appNormalizerImpl, parsed),
                          !.isProcessing = FALSE]]
    /\ extractIndex' = extractIndex + 1
    /\ apc' = "batchLoop"
    /\ UNCHANGED <<appNormalizerImpl, batchMode, imageFile, extractedData, isLoading,
                   appError, isEditing, editIndex, jsonString, jsonError,
                   handedToXero>>
    /\ UNCHANGED <<retryVars, pipelineVars, dateVars, uploadVars, proxyVars, webhookVars>>

\* part_001 93-102: extractInvoiceData rejected.
BatchItemRejects ==
    /\ apc = "batchAwait"
    /\ invoiceItems' =
            [invoiceItems EXCEPT ![extractIndex + 1] =
                [@ EXCEPT !.error = Str(S_ExtractionFailed),
                          !.isProcessing = FALSE]]
    /\ extractIndex' = extractIndex + 1
    /\ apc' = "batchLoop"
    /\ UNCHANGED <<appNormalizerImpl, batchMode, imageFile, extractedData, isLoading,
                   appError, isEditing, editIndex, jsonString, jsonError,
                   handedToXero>>
    /\ UNCHANGED <<retryVars, pipelineVars, dateVars, uploadVars, proxyVars, webhookVars>>

\* part_001 83 and 105: the loop is over; setIsLoading(false).
BatchFinishes ==
    /\ apc = "batchLoop"
    /\ ~(extractIndex < Len(invoiceItems))
    /\ isLoading' = FALSE
    /\ apc' = "idle"
    /\ UNCHANGED <<appNormalizerImpl, batchMode, imageFile, extractedData, appError,
                   invoiceItems, extractIndex, isEditing, editIndex, jsonString,
                   jsonError, handedToXero>>
    /\ UNCHANGED <<retryVars, pipelineVars, dateVars, uploadVars, proxyVars, webhookVars>>

\* part_001 106-113: handleExtract with a single file, up to the await.
HandleExtractSingle ==
    /\ apc = "idle"
    /\ ExtractEnabled
    /\ ~(batchMode /\ Len(invoiceItems) > 0)
    /\ ~batchMode /\ imageFile
    /\ isLoading' = TRUE
    /\ appError' = FALSE
    /\ extractedData' = Null
    /\ apc' = "singleAwait"
    /\ ViewerReset
    /\ UNCHANGED <<appNormalizerImpl, batchMode, imageFile, invoiceItems,
                   extractIndex, handedToXero>>
    /\ UNCHANGED <<retryVars, pipelineVars, dateVars, uploadVars, proxyVars, webhookVars>>

\* part_001 113-114 and 118-120: extractInvoiceData resolved.
SingleExtractResolves ==
    /\ apc = "singleAwait"
    /\ \E parsed \in AppPayloads :
        extractedData' = ExtractedInvoiceData(appNormalizerImpl, parsed)
    /\ isLoading' = FALSE
    /\ apc' = "idle"
    /\ UNCHANGED <<appNormalizerImpl, batchMode, imageFile, appError, invoiceItems,
                   extractIndex, isEditing, editIndex, jsonString, jsonError,
                   handedToXero>>
    /\ UNCHANGED <<retryVars, pipelineVars, dateVars, uploadVars, proxyVars, webhookVars>>

\* part_001 115-120: extractInvoiceData rejected.
SingleExtractRejects ==
    /\ apc = "singleAwait"
    /\ appError' = TRUE
    /\ isLoading' = FALSE
    /\ apc' = "idle"
    /\ UNCHANGED <<appNormalizerImpl, batchMode, imageFile, extractedData,
                   invoiceItems, extractIndex, isEditing, editIndex, jsonString,
                   jsonError, handedToXero>>
    /\ UNCHANGED <<retryVars, pipelineVars, dateVars, uploadVars, proxyVars, webhookVars>>

\* part_001 213-239 and 254-266: the JsonViewer and XeroIntegration rendered
\* for the single file (k = 0) or for batch item k, and the data they show.
Shown(k) ==
    IF k = 0
    THEN Truthy(extractedData)
    ELSE /\ ~isLoading /\ batchMode
         /\ k \in 1 .. Len(invoiceItems)
         /\ Truthy(invoiceItems[k].data)

DataShown(k) == IF k = 0 THEN extractedData ELSE invoiceItems[k].data

\* JsonViewer.tsx 15-19 and 53: Edit JSON.  The text is the one the viewer
\* holds: JSON.stringify(data) from the time it was mounted or its data
\* changed, or the text of an edit that was saved without changing the data.
BeginEdit ==
    /\ ~isEditing
    /\ \E k \in 0 .. Len(invoiceItems) :
        /\ Shown(k)
        /\ editIndex' = k
        /\ jsonString' = IF k = editIndex /\ jsonString # NoText
                         THEN jsonString
                         ELSE StringifiedData(DataShown(k))
    /\ isEditing' = TRUE
    /\ jsonError' = FALSE
    /\ UNCHANGED <<appNormalizerImpl, batchMode, imageFile, extractedData, isLoading,
                   appError, invoiceItems, apc, extractIndex, handedToXero>>
    /\ UNCHANGED <<retryVars, pipelineVars, dateVars, uploadVars, proxyVars, webhookVars>>

\* JsonViewer.tsx 23-26: the text is changed.
HandleJsonChange ==
    /\ isEditing
    /\ Shown(editIndex)
    /\ \E text \in EditedTexts(DataShown(editIndex)) :
        /\ text # jsonString
        /\ jsonString' = text
    /\ jsonError' = FALSE
    /\ UNCHANGED <<appNormalizerImpl, batchMode, imageFile, extractedData, isLoading,
                   appError, invoiceItems, apc, extractIndex, isEditing, editIndex,
                   handedToXero>>
    /\ UNCHANGED <<retryVars, pipelineVars, dateVars, uploadVars, proxyVars, webhookVars>>

\* part_001 229-235 and 260-264: onDataChange(newData).
OnDataChange(k, newData) ==
    IF Truthy(Get(newData, "InvoiceData"))
    THEN IF k = 0
         THEN /\ extractedData' = Get(newData, "InvoiceData")
              /\ UNCHANGED invoiceItems
         ELSE /\ invoiceItems' =
                    [invoiceItems EXCEPT ![k].data = Get(newData, "InvoiceData")]
              /\ UNCHANGED extractedData
    ELSE UNCHANGED <<extractedData, invoiceItems>>

\* JsonViewer.tsx 28-39 and 15-19: Save Changes.  JSON.parse may throw, and so
\* does newData.InvoiceData for the text 'null', after setIsEditing(false);
\* when the data changed the text becomes JSON.stringify of the new data.
HandleSave ==
    /\ isEditing
    /\ Shown(editIndex)
    /\ IF ~jsonString.valid
       THEN /\ jsonError' = TRUE
            /\ UNCHANGED <<isEditing, editIndex, jsonString, extractedData,
                           invoiceItems>>
       ELSE IF jsonString.value.t = "null"
       THEN /\ jsonError' = TRUE
            /\ isEditing' = FALSE
            /\ UNCHANGED <<editIndex, jsonString, extractedData, invoiceItems>>
       ELSE /\ jsonError' = FALSE
            /\ isEditing' = FALSE
            /\ OnDataChange(editIndex, jsonString.value)
            /\ jsonString' =
                    IF Truthy(Get(jsonString.value, "InvoiceData"))
                    THEN StringifiedData(Get(jsonString.value, "InvoiceData"))
                    ELSE jsonString
            /\ UNCHANGED editIndex
    /\ UNCHANGED <<appNormalizerImpl, batchMode, imageFile, isLoading, appError, apc,
                   extractIndex, handedToXero>>
    /\ UNCHANGED <<retryVars, pipelineVars, dateVars, uploadVars, proxyVars, webhookVars>>

\* JsonViewer.tsx 41-45: Cancel.
HandleCancel ==
    /\ isEditing
    /\ Shown(editIndex)
    /\ jsonString' = StringifiedData(DataShown(editIndex))
    /\ jsonError' = FALSE
    /\ isEditing' = FALSE
    /\ UNCHANGED <<appNormalizerImpl, batchMode, imageFile, extractedData, isLoading,
                   appError, invoiceItems, apc, extractIndex, editIndex,
                   handedToXero>>
    /\ UNCHANGED <<retryVars, pipelineVars, dateVars, uploadVars, proxyVars, webhookVars>>

\* part_004 219-223: handleUpload calls uploadBillToXero(invoiceData, accountCode)
\* with the invoiceData property XeroIntegration was rendered with.
HandleUpload ==
    /\ \E k \in 0 .. Len(invoiceItems) :
        /\ Shown(k)
        /\ handedToXero' = DataShown(k)
    /\ UNCHANGED <<appNormalizerImpl, batchMode, imageFile, extractedData, isLoading,
                   appError, invoiceItems, apc, extractIndex, isEditing, editIndex,
                   jsonString, jsonError>>
    /\ UNCHANGED <<retryVars, pipelineVars, dateVars, uploadVars, proxyVars, webhookVars>>

AppNext ==
    \/ HandleFileChangeBatch
    \/ HandleFileChangeSingle
    \/ ToggleBatchMode
    \/ HandleExtractBatch
    \/ BatchItemStarts
    \/ BatchItemResolves
    \/ BatchItemRejects
    \/ BatchFinishes
    \/ HandleExtractSingle
    \/ SingleExtractResolves
    \/ SingleExtractRejects
    \/ BeginEdit
    \/ HandleJsonChange
    \/ HandleCancel
    \/ HandleSave
    \/ HandleUpload

SpecApp == AppInit /\ [][AppNext]_vars

(***************************************************************************)
(* Claims about the App component (checked under SpecApp).                 *)
(***************************************************************************)
\* An InvoiceData equal to its own normalizeInvoiceData image.
Canonical(d) == d = ExtractedInvoiceData(appNormalizerImpl, d)

\* C27: every InvoiceData the UI hands to uploadBillToXero is canonical,
\* after any sequence of extract, edit-and-save, cancel and upload actions.
C27_UploadedDataIsCanonical ==
    handedToXero # Undefined => Canonical(handedToXero)

\* C28: in batch mode, whenever no extraction is in progress, isLoading is
\* false and every batch item has isProcessing = false and at most one of
\* data and error set.
C28_BatchItemsAreSettled ==
    (batchMode /\ apc = "idle") =>
        /\ ~isLoading
        /\ \A k \in 1 .. Len(invoiceItems) :
            /\ ~invoiceItems[k].isProcessing
            /\ ~(invoiceItems[k].data # Null /\ invoiceItems[k].error # Null)

(***************************************************************************)
(* formatDateForXero (backend/utils/dateUtils.js).                         *)
(***************************************************************************)
MaxBlanks == 1

DateSeparators == {"/", "-", "."}

\* isoPattern: /^(\d{4})-(\d{2})-(\d{2})$/
isoPattern(t) ==
    /\ Len(t) = 10
    /\ t[5] = "-"
    /\ t[8] = "-"
    /\ \A i \in {1, 2, 3, 4, 6, 7, 9, 10} : IsDigit(t[i])

NoMatch == [matched |-> FALSE]

\* ddmmyyyyPattern: /^(\d{1,2})[\/\-.](\d{1,2})[\/\-.](\d{2,4})$/
\* The groups hold digits only, so a match has exactly two separators.
ddmmyyyyMatch(t) ==
    LET seps  == {i \in 1 .. Len(t) : t[i] \in DateSeparators}
        p1    == CHOOSE i \in seps : \A j \in seps : i <= j
        p2    == CHOOSE i \in seps : \A j \in seps : j <= i
        day   == SubSeq(t, 1, p1 - 1)
        month == SubSeq(t, p1 + 1, p2 - 1)
        year  == SubSeq(t, p2 + 1, Len(t))
    IN  IF /\ Cardinality(seps) = 2
           /\ Len(day) \in 1 .. 2
           /\ Len(month) \in 1 .. 2
           /\ Len(year) \in 2 .. 4
           /\ AllDigits(day) /\ AllDigits(month) /\ AllDigits(year)
        THEN [matched |-> TRUE, day |-> day, month |-> month, year |-> year]
        ELSE NoMatch

\* String.prototype.padStart(n, c) for a one-character filler
RECURSIVE padStart(_, _, _)
padStart(s, n, c) == IF Len(s) >= n THEN s ELSE padStart(<<c>> \o s, n, c)

\* dateUtils.js 33-37: a two-digit year is taken to be in the 2000s
ExpandYearNineteenHundreds(year) ==
    IF Len(year) = 2 THEN NatToString(1900 + DigitsValue(year)) ELSE year
ExpandYear(year) ==
    IF Len(year) = 2 THEN NatToString(2000 + DigitsValue(year)) ELSE year

S_NotADate    == <<"n", "o", "t", "-", "a", "-", "d", "a", "t", "e">>
S_IsoDate     == <<"2", "0", "2", "5", "-", "1", "1", "-", "2", "0">>
S_IsoDayBefore == <<"2", "0", "2", "5", "-", "1", "1", "-", "1", "9">>
S_IsoInstant  == S_IsoDate \o <<"T", "1", "0", ":", "0", "0", ":", "0", "0", "Z">>
S_LongDate    == <<"2", "0", " ", "N", "o", "v", " ", "2", "0", "2", "5">>

\* new Date(s).toISOString().slice(0, 10) for the strings that reach the
\* fallback of formatDateForXero in this model: the set of the values it can
\* give, empty when the date is invalid.  A string without a time zone is
\* read in the local zone, so its UTC calendar date depends on the zone of
\* the process.
DateConstructorLenient(s) == {S_IsoDate}
DateConstructor(s) ==
    CASE s = S_IsoInstant -> {S_IsoDate}
      [] s = S_LongDate   -> {S_IsoDate, S_IsoDayBefore}
      [] s = S_NotADate   -> {}
      [] s = << >>        -> {}

\* formatDateForXero(dateStr): the set of the values it can return
formatDateForXero(v) ==
    IF ~Truthy(v) \/ v.t # "str" THEN {v}
    ELSE LET trimmedDate == Trim(v.s)
             m == ddmmyyyyMatch(trimmedDate)
         IN  IF isoPattern(trimmedDate) THEN {Str(trimmedDate)}
             ELSE IF m.matched
             THEN {Str(ExpandYear(m.year) \o <<"-">>
                       \o padStart(m.month, 2, "0") \o <<"-">>
                       \o padStart(m.day, 2, "0"))}
             ELSE IF DateConstructor(trimmedDate) # {}
             THEN {Str(d) : d \in DateConstructor(trimmedDate)}
             ELSE {v}

(***************************************************************************)
(* Inputs of formatDateForXero: day, month and year written with one or    *)
(* two separators and surrounding blanks, the dates of the test suite      *)
(* (tests/dateUtils.test.cjs), and the inputs of the other branches.       *)
(***************************************************************************)
DateDigits == {"0", "9"}

DigitRuns(lo, hi) == UNION {[1 .. n -> DateDigits] : n \in lo .. hi}

BlankRuns == {[i \in 1 .. n |-> " "] : n \in 0 .. MaxBlanks} \cup {<<"\t">>}

Dmy(lead, day, sep1, month, sep2, year, trail) ==
    [kind |-> "dmy", lead |-> lead, day |-> day, sep1 |-> sep1,
     month |-> month, sep2 |-> sep2, year |-> year, trail |-> trail]

GeneratedDates ==
    {Dmy(l, d, s1, m, s2, y, t) :
        l \in BlankRuns, d \in DigitRuns(1, 2), s1 \in DateSeparators,
        m \in DigitRuns(1, 2), s2 \in DateSeparators,
        y \in DigitRuns(2, 4), t \in BlankRuns}

TestDates ==
    { Dmy(<< >>, <<"2", "0">>, "/", <<"1", "1">>, "/", <<"2", "0", "2", "5">>, << >>),
      Dmy(<< >>, <<"2", "0">>, "-", <<"1", "1">>, "-", <<"2", "5">>, << >>),
      Dmy(<< >>, <<"2", "0">>, ".", <<"1", "1">>, ".", <<"2", "5">>, << >>),
      Dmy(<< >>, <<"5">>, "/", <<"3">>, "/", <<"2", "0", "2", "5">>, << >>),
      Dmy(<<" ", " ">>, <<"2", "0">>, "/", <<"1", "1">>, "/", <<"2", "0", "2", "5">>, <<" ", " ">>),
      Dmy(<< >>, <<"3", "1">>, "/", <<"1", "2">>, "/", <<"2", "0", "2", "5">>, << >>),
      Dmy(<< >>, <<"1", "5">>, "/", <<"0", "6">>, "/", <<"0", "0">>, << >>) }

OtherDate(v) == [kind |-> "other", value |-> v]

OtherDates ==
    { OtherDate(Null), OtherDate(Undefined), OtherDate(Str(<< >>)),
      OtherDate(Num(2025 * Scale)),
      OtherDate(Str(S_IsoDate)), OtherDate(Str(<<" ">> \o S_IsoDate \o <<" ">>)),
      OtherDate(Str(S_NotADate)), OtherDate(Str(<<" ", " ">>)),
      OtherDate(Str(S_IsoInstant)), OtherDate(Str(S_LongDate)) }

DateInputs == GeneratedDates \cup TestDates \cup OtherDates

\* The argument passed to formatDateForXero for an input.
DateArgument(p) ==
    IF p.kind = "dmy"
    THEN Str(p.lead \o p.day \o <<p.sep1>> \o p.month \o <<p.sep2>>
             \o p.year \o p.trail)
    ELSE p.value

DateInit ==
    /\ RetryUnused
    /\ PipelineUnused
    /\ UploadUnused
    /\ ProxyUnused
    /\ WebhookUnused
    /\ AppUnused
    /\ dateParts \in DateInputs
    /\ dateStr = DateArgument(dateParts)
    /\ dateResult = Pending
    /\ dpc = "call"

\* One call of formatDateForXero(dateStr).
FormatDateForXero ==
    /\ dpc = "call"
    /\ dateResult' \in formatDateForXero(dateStr)
    /\ dpc' = "returned"
    /\ UNCHANGED <<dateParts, dateStr>>
    /\ UNCHANGED <<retryVars, pipelineVars, uploadVars, proxyVars, webhookVars, appVars>>

DateNext == FormatDateForXero

SpecDate == DateInit /\ [][DateNext]_vars

(***************************************************************************)
(* Claims about formatDateForXero (checked under SpecDate).                *)
(***************************************************************************)
DateReturned == dpc = "returned"

ZeroPadded(s) == IF Len(s) = 1 THEN <<"0">> \o s ELSE s

FourDigitYear(y) == IF Len(y) = 2 THEN <<"2", "0">> \o y ELSE y

IsoTemplate == <<"d", "d", "d", "d", "-", "d", "d", "-", "d", "d">>

HasIsoForm(s) ==
    /\ Len(s) = Len(IsoTemplate)
    /\ \A i \in 1 .. Len(IsoTemplate) :
          IF IsoTemplate[i] = "d" THEN IsDigit(s[i]) ELSE s[i] = IsoTemplate[i]

\* Strings no date parser reads: "not-a-date" and the strings of blanks.
CannotBeParsed(s) == Trim(s) \in {S_NotADate, << >>}

MatchesNoRule(s) == ~HasIsoForm(Trim(s)) /\ ~ddmmyyyyMatch(Trim(s)).matched

\* The inputs formatDateForXero is to hand back as they are.
PassedThrough(v) ==
    \/ v \in {Null, Undefined, Str(<< >>)}
    \/ /\ v.t = "str"
       /\ HasIsoForm(v.s) \/ (MatchesNoRule(v.s) /\ CannotBeParsed(v.s))

\* C11: formatDateForXero never throws (a call always has a value to return),
\* and returns its input unchanged when the input is null, undefined, the
\* empty string, a string of the form YYYY-MM-DD, or a string that matches no
\* rule and cannot be parsed as a date.
C11_UnusableInputIsReturnedUnchanged ==
    /\ dpc = "call" => formatDateForXero(dateStr) # {}
    /\ (DateReturned /\ PassedThrough(dateStr)) => dateResult = dateStr

C11_Witness ==
    /\ DateReturned
    /\ dateStr = Str(S_NotADate)
    /\ dateResult = Str(S_NotADate)

\* C19: for a string input formatDateForXero returns a string of the form
\* YYYY-MM-DD or the input string itself.
C19_ResultIsIsoOrTheInput ==
    (DateReturned /\ dateStr.t = "str") =>
        \/ dateResult = dateStr
        \/ dateResult.t = "str" /\ HasIsoForm(dateResult.s)

(***************************************************************************)
(* uploadBillToXero (xeroService.ts) and the POST /upload-bill handler     *)
(* (backend/app.js 180-287).                                               *)
(***************************************************************************)
Absent == "absent"

\* x || d for a field that is a string when present
OrDefault(x, d) == IF x = Absent \/ x = "" THEN d ELSE x

S_GBP == <<"G", "B", "P">>
S_GST == <<"G", "S", "T">>

\* The line items of the invoices uploaded: canonical LineItems over the
\* values the tax-type rules tell apart.
UploadItems ==
    { [ LineType    |-> Str(lt),
        LotNumber   |-> Str(<<"7">>),
        Description |-> Str(<<"d">>),
        Quantity    |-> Num(1 * Scale),
        UnitPrice   |-> Num(10 * Scale),
        TaxType     |-> tt,
        TaxRate     |-> tr,
        TaxAmount   |-> ta,
        VatIncluded |-> Bool(vi),
        LineTotal   |-> Num(12 * Scale) ] :
        lt \in LineTypeValues,
        tt \in {Null, Str(S_VAT), Str(S_GST)},
        tr \in {Null, Num(0), Num(5 * Scale), Num(10 * Scale), Num(20 * Scale)},
        ta \in {Null, Num(0), Num(2 * Scale)},
        vi \in BOOLEAN }

\* Invoice dates.  None of them reaches the Date fallback of
\* formatDateForXero with a valid date, so the result does not depend on the
\* time zone of the backend.
UploadDates ==
    { Str(<<"2", "0", "/", "1", "1", "/", "2", "5">>), Str(S_IsoDate),
      Str(<< >>), Str(S_NotADate) }

UploadInvoice(date, currency, lineItems) ==
    [ InvoiceNumber |-> Str(<<"A", "1">>),
      InvoiceDate   |-> date,
      SupplierName  |-> Str(<<"S">>),
      TotalAmount   |-> Num(12 * Scale),
      Currency      |-> currency,
      LineItems     |-> lineItems ]

UploadInvoices ==
    { UploadInvoice(d, c, <<it>>) :
        d \in UploadDates, c \in {Str(S_GBP), Str(<< >>)}, it \in UploadItems }
    \cup { UploadInvoice(d, Str(S_GBP), << >>) : d \in UploadDates }

\* The account code of the uploads.
UploadAccountCode == <<"4", "2", "9">>

\* Bill data sent by a client other than uploadBillToXero.
OtherBill(status, dueDate, lineItems) ==
    [ Type           |-> Absent,
      Contact        |-> [Name |-> Str(<<"S">>)],
      DateString     |-> Str(S_IsoDate),
      DueDateString  |-> dueDate,
      InvoiceNumber  |-> Str(<<"B", "2">>),
      CurrencyCode   |-> Str(<< >>),
      Status         |-> status,
      LineItems      |-> lineItems ]

OtherBillLine ==
    [ Description |-> <<"x">>, Quantity |-> Num(1 * Scale),
      UnitAmount |-> Num(10 * Scale), AccountCode |-> UploadAccountCode,
      LineAmount |-> Num(10 * Scale), TaxType |-> Absent ]

\* req.body.billData that is not JSON, and a request without the field.
Malformed == [malformed |-> TRUE]

NoBillData == [missing |-> TRUE]

OtherBillData ==
    { Malformed,
      OtherBill("AUTHORISED", Str(S_IsoDate), <<OtherBillLine>>),
      OtherBill(Absent, Str(S_IsoDayBefore), <<OtherBillLine>>),
      OtherBill("DRAFT", Str(S_IsoDate), << >>) }

\* app.js 219-237: the invoice object, given the two normalized dates.
InvoiceOf(billData, normalizedDateString, normalizedDueDateString) ==
    [ type          |-> OrDefault(billData.Type, "ACCPAY"),
      contact       |-> [name |-> IF Truthy(billData.Contact.Name)
                                  THEN billData.Contact.Name ELSE Undefined],
      date          |-> normalizedDateString,
      dueDate       |-> normalizedDueDateString,
      invoiceNumber |-> billData.InvoiceNumber,
      currencyCode  |-> IF Truthy(billData.CurrencyCode)
                        THEN billData.CurrencyCode ELSE Str(S_GBP),
      status        |-> OrDefault(billData.Status, "DRAFT"),
      lineItems     |-> [i \in 1 .. Len(billData.LineItems) |->
                                LET item == billData.LineItems[i]
                                IN  [ description |-> item.Description,
                                      quantity    |-> item.Quantity,
                                      unitAmount  |-> item.UnitAmount,
                                      accountCode |-> item.AccountCode,
                                      lineAmount  |-> item.LineAmount,
                                      taxType     |-> OrDefault(item.TaxType, "NONE") ]] ]

\* app.js 190, 204, 282: the error responses; 274-279: the success response.
ErrorResponse(status) == [status |-> status, success |-> FALSE, hasAttachment |-> FALSE]

SuccessResponse(file) == [status |-> 200, success |-> TRUE, hasAttachment |-> file]

\* app.js 268-279: the response after the attachment call; a failure of the
\* call is caught and logged.
ResponseAfterAttachmentPropagating(ok, file) ==
    IF ok THEN SuccessResponse(file) ELSE ErrorResponse(500)
ResponseAfterAttachment(ok, file) == SuccessResponse(file)

UploadInit ==
    /\ RetryUnused
    /\ PipelineUnused
    /\ DateUnused
    /\ ProxyUnused
    /\ WebhookUnused
    /\ AppUnused
    /\ uploader \in {"taxType", "noTaxType", "other"}
    /\ tokenSet \in BOOLEAN
    /\ sentBill = Pending
    /\ invoice = Pending
    /\ createdInvoices = << >>
    /\ attachments = << >>
    /\ res = Pending
    /\ IF uploader = "other"
       THEN /\ uploadInvoice = Pending
            /\ reqBillData \in OtherBillData
            /\ reqFile \in BOOLEAN
            /\ hpc = "received"
       ELSE /\ uploadInvoice \in UploadInvoices
            /\ reqBillData = Pending
            \* the revision at xeroService.ts 235 takes no file
            /\ reqFile \in (IF uploader = "taxType" THEN BOOLEAN ELSE {FALSE})
            /\ hpc = "client"

\* xeroService.ts 102-124 and 235-251: uploadBillToXero maps the bill and
\* posts it: as the form field billData (113), or as the JSON body itself
\* (249), in which req.body has no billData.
PostUploadBill ==
    /\ hpc = "client"
    /\ sentBill' = mapToXeroBill(uploader, uploadInvoice, UploadAccountCode)
    /\ reqBillData' = IF uploader = "taxType" THEN sentBill' ELSE NoBillData
    /\ hpc' = "received"
    /\ UNCHANGED <<uploader, uploadInvoice, reqFile, tokenSet, invoice,
                   createdInvoices, attachments, res>>
    /\ UNCHANGED <<retryVars, pipelineVars, dateVars, proxyVars, webhookVars, appVars>>

\* app.js 180-212: JSON.parse(req.body.billData), the connection check, and
\* the call of xero.refreshToken().
ParseBillData ==
    /\ hpc = "received"
    /\ IF reqBillData = NoBillData \/ reqBillData = Malformed
       THEN /\ res' = ErrorResponse(400)
            /\ hpc' = "responded"
       ELSE IF ~tokenSet
       THEN /\ res' = ErrorResponse(401)
            /\ hpc' = "responded"
       ELSE /\ hpc' = "refreshToken"
            /\ UNCHANGED res
    /\ UNCHANGED <<uploader, uploadInvoice, sentBill, reqBillData, reqFile, tokenSet,
                   invoice, createdInvoices, attachments>>
    /\ UNCHANGED <<retryVars, pipelineVars, dateVars, proxyVars, webhookVars, appVars>>

\* app.js 212-243: refreshToken settles; on success the dates are normalized,
\* the invoice object is built and createInvoices is called.
RefreshToken ==
    /\ hpc = "refreshToken"
    /\ \E ok \in BOOLEAN :
        IF ok
        THEN /\ \E date \in formatDateForXero(reqBillData.DateString),
                   dueDate \in formatDateForXero(reqBillData.DueDateString) :
                    invoice' = InvoiceOf(reqBillData, date, dueDate)
             /\ hpc' = "createInvoices"
             /\ UNCHANGED res
        ELSE /\ res' = ErrorResponse(500)
             /\ hpc' = "responded"
             /\ UNCHANGED invoice
    /\ UNCHANGED <<uploader, uploadInvoice, sentBill, reqBillData, reqFile, tokenSet,
                   createdInvoices, attachments>>
    /\ UNCHANGED <<retryVars, pipelineVars, dateVars, proxyVars, webhookVars, appVars>>

\* app.js 241-265 and 274-285: createInvoices settles.  On success the ledger
\* holds the invoice; with a file and an invoice id the attachment call is
\* made, otherwise the success response is sent.
CreateInvoices ==
    /\ hpc = "createInvoices"
    /\ \E ok \in BOOLEAN, invoiceId \in BOOLEAN :
        IF ok
        THEN /\ createdInvoices' = Append(createdInvoices, invoice)
             /\ IF reqFile /\ invoiceId
                THEN /\ hpc' = "createAttachment"
                     /\ UNCHANGED res
                ELSE /\ res' = SuccessResponse(reqFile)
                     /\ hpc' = "responded"
        ELSE /\ res' = ErrorResponse(500)
             /\ hpc' = "responded"
             /\ UNCHANGED createdInvoices
    /\ UNCHANGED <<uploader, uploadInvoice, sentBill, reqBillData, reqFile, tokenSet,
                   invoice, attachments>>
    /\ UNCHANGED <<retryVars, pipelineVars, dateVars, proxyVars, webhookVars, appVars>>

\* app.js 255-279: createInvoiceAttachmentByFileName settles and the response
\* is sent.
CreateInvoiceAttachment ==
    /\ hpc = "createAttachment"
    /\ \E ok \in BOOLEAN :
        /\ attachments' = Append(attachments, IF ok THEN "attached" ELSE "failed")
        /\ res' = ResponseAfterAttachment(ok, reqFile)
    /\ hpc' = "responded"
    /\ UNCHANGED <<uploader, uploadInvoice, sentBill, reqBillData, reqFile, tokenSet,
                   invoice, createdInvoices>>
    /\ UNCHANGED <<retryVars, pipelineVars, dateVars, proxyVars, webhookVars, appVars>>

UploadNext ==
    \/ PostUploadBill
    \/ ParseBillData
    \/ RefreshToken
    \/ CreateInvoices
    \/ CreateInvoiceAttachment

SpecUpload == UploadInit /\ [][UploadNext]_vars

(***************************************************************************)
(* Claims about the upload of a bill (checked under SpecUpload).           *)
(***************************************************************************)
BillWasMapped == sentBill # Pending

\* The tax-type code the rules give for a line item ("unstated" where the
\* rules say nothing).
RuledTaxCode(item) ==
    IF item.LineType \in {Str(S_Lot), Str(S_Premium)} THEN "EXEMPTEXPENSES"
    ELSE IF item.TaxType = Str(S_VAT) /\ item.TaxRate.t = "num" /\ item.TaxRate.n > 0
    THEN (IF item.TaxRate.n = 5 * Scale THEN "INPUT" ELSE "INPUT2")
    ELSE IF item.TaxRate = Num(0) \/ item.TaxAmount = Num(0) THEN "EXEMPTEXPENSES"
    ELSE "unstated"

\* C15: every line of the bill carries the tax-type code the rules give
\* (Lot or Premium: the no-tax code; else VAT at 20: the 20% code, at 5: the
\* 5% code, at any other positive rate: the 20% code; else TaxRate 0 or
\* TaxAmount 0: the no-tax code), and the invoice the backend creates in the
\* ledger carries the same code on the same line.
C15_TaxTypeCodeFollowsTheRules ==
    BillWasMapped =>
        /\ \A i \in 1 .. Len(sentBill.LineItems) :
              RuledTaxCode(uploadInvoice.LineItems[i]) # "unstated" =>
                  sentBill.LineItems[i].TaxType = RuledTaxCode(uploadInvoice.LineItems[i])
        /\ \A k \in 1 .. Len(createdInvoices) :
              /\ Len(createdInvoices[k].lineItems) = Len(sentBill.LineItems)
              /\ \A i \in 1 .. Len(sentBill.LineItems) :
                    createdInvoices[k].lineItems[i].taxType = sentBill.LineItems[i].TaxType

\* C17: the bill mapToXeroBill produces has Status DRAFT and a due date equal
\* to its date, and every invoice the /upload-bill handler creates in the
\* ledger has status DRAFT and a due date equal to its date.
C17_OnlyDraftsReachTheLedger ==
    /\ BillWasMapped =>
          /\ sentBill.Status = "DRAFT"
          /\ sentBill.DueDateString = sentBill.DateString
    /\ \A k \in 1 .. Len(createdInvoices) :
          /\ createdInvoices[k].status = "DRAFT"
          /\ createdInvoices[k].dueDate = createdInvoices[k].date

\* C18: when the invoice was created in the ledger and the attachment call
\* failed, the handler answers with the success response and the ledger
\* holds the invoice once.
C18_AttachmentFailureKeepsSuccess ==
    (\E j \in 1 .. Len(attachments) : attachments[j] = "failed") =>
        /\ hpc = "responded"
        /\ res = SuccessResponse(reqFile)
        /\ res.status = 200
        /\ Len(createdInvoices) = 1

C18_Witness ==
    /\ hpc = "responded"
    /\ reqFile
    /\ attachments = <<"failed">>
    /\ Len(createdInvoices) = 1
    /\ res.success
    /\ res.status = 200

\* The file of the request was attached to the invoice created in the ledger.
FileWasAttached ==
    /\ reqFile
    /\ Len(createdInvoices) >= 1
    /\ \E j \in 1 .. Len(attachments) : attachments[j] = "attached"

\* C29: the success response reports hasAttachment = true (and the message
\* suffix "with attachment", which follows the same test) only if the file was
\* attached to the created invoice; with no file or a failed attachment call
\* it reports hasAttachment = false.
C29_HasAttachmentOnlyIfAttached ==
    (hpc = "responded" /\ res.success) =>
        (res.hasAttachment <=> FileWasAttached)

(***************************************************************************)
(* The Xero webhook handler, POST /api/webhooks/xero (backend/app.js       *)
(* 56-129).  A signature is a sequence of strings: << >> for a missing or  *)
(* empty header, <<"hmac", key, body>> for the base64 HMAC-SHA256 digest   *)
(* of body under key (distinct keys or bodies give distinct digests).      *)
(***************************************************************************)
\* app.js 104: crypto.createHmac('sha256', signingKey).update(rawBody).digest('base64').
createHmac(key, rawBody) == <<"hmac", key, rawBody>>

WebhookKeys == {"", "k1"}

\* app.js 58-65: the raw body captured by the body parsers (Absent when no
\* parser read the request).
RawBodies == {Absent, "b1", "b2"}

\* The X-Xero-Signature headers that may arrive: none, digests of either body
\* under the configured key or under another key, and other text.
Signatures ==
    {<< >>, <<"junk">>}
        \cup {createHmac(k, b) : k \in {"", "k1", "k2"}, b \in {"b1", "b2"}}

NoRequest == [signature |-> << >>, rawBody |-> Absent]

WebhookInit ==
    /\ signingKey \in WebhookKeys
    /\ whReq = NoRequest
    /\ wpc = "idle"
    /\ eventQueue = << >>
    /\ whResponses = << >>
    /\ whQueueAtArrival = << >>
    /\ whCount = 0
    /\ RetryUnused
    /\ PipelineUnused
    /\ DateUnused
    /\ UploadUnused
    /\ ProxyUnused
    /\ AppUnused

\* app.js 73: a request reaches the handler.
WebhookArrives ==
    /\ wpc \in {"idle", "done"}
    /\ whCount < MaxRequests
    /\ \E signature \in Signatures, rawBody \in RawBodies :
            whReq' = [signature |-> signature, rawBody |-> rawBody]
    /\ whResponses' = << >>
    /\ whQueueAtArrival' = eventQueue
    /\ whCount' = whCount + 1
    /\ wpc' = "handler"
    /\ UNCHANGED <<signingKey, eventQueue>>
    /\ UNCHANGED <<retryVars, pipelineVars, dateVars, uploadVars, proxyVars, appVars>>

\* app.js 105: computed !== xeroSignature.
SignatureRejectedByLength(computed, xeroSignature) ==
    Len(computed) # Len(xeroSignature)
SignatureRejected(computed, xeroSignature) == computed # xeroSignature

\* app.js 77-113: the checks of the handler.  With a string key and a Buffer
\* body the digest computation does not throw.
VerifySignature ==
    /\ wpc = "handler"
    /\ IF \/ whReq.signature = << >>
          \/ signingKey = ""
          \/ whReq.rawBody = Absent
          \/ SignatureRejected(createHmac(signingKey, whReq.rawBody), whReq.signature)
       THEN /\ whResponses' = Append(whResponses, 401)
            /\ wpc' = "done"
       ELSE /\ wpc' = "verified"
            /\ UNCHANGED whResponses
    /\ UNCHANGED <<signingKey, whReq, eventQueue, whQueueAtArrival, whCount>>
    /\ UNCHANGED <<retryVars, pipelineVars, dateVars, uploadVars, proxyVars, appVars>>

\* app.js 121: res.status(200).json({ status: 'received' }).
Acknowledge ==
    /\ wpc = "verified"
    /\ whResponses' = Append(whResponses, 200)
    /\ wpc' = "acknowledged"
    /\ UNCHANGED <<signingKey, whReq, eventQueue, whQueueAtArrival, whCount>>
    /\ UNCHANGED <<retryVars, pipelineVars, dateVars, uploadVars, proxyVars, appVars>>

\* app.js 124-128: eventQueue.push({ receivedAt, headers, body }).
QueueEvent ==
    /\ wpc = "acknowledged"
    /\ eventQueue' = Append(eventQueue, whReq)
    /\ wpc' = "done"
    /\ UNCHANGED <<signingKey, whReq, whResponses, whQueueAtArrival, whCount>>
    /\ UNCHANGED <<retryVars, pipelineVars, dateVars, uploadVars, proxyVars, appVars>>

WebhookNext == WebhookArrives \/ VerifySignature \/ Acknowledge \/ QueueEvent

SpecWebhook == WebhookInit /\ [][WebhookNext]_vars

(***************************************************************************)
(* Claims about the webhook handler (checked under SpecWebhook).           *)
(***************************************************************************)
\* The base64 HMAC-SHA256 of a body under a key, as the claim names it.
HmacSha256Base64(key, body) == <<"hmac", key, body>>

\* The request carries the signature of its raw body under the configured key.
ValidlySigned(req) ==
    /\ req.signature # << >>
    /\ signingKey # ""
    /\ req.rawBody # Absent
    /\ req.signature = HmacSha256Base64(signingKey, req.rawBody)

\* C30: the handler appends to eventQueue only for a request whose signature
\* is the base64 HMAC-SHA256 of the raw body under the configured key; a
\* request with a missing signature, key or raw body or with another
\* signature is answered 401 and leaves eventQueue as it was; every request
\* gets exactly one response.
C30_OnlySignedEventsAreQueued ==
    /\ \A k \in 1 .. Len(eventQueue) : ValidlySigned(eventQueue[k])
    /\ Len(whResponses) <= 1
    /\ wpc = "done" =>
            /\ Len(whResponses) = 1
            /\ IF ValidlySigned(whReq)
               THEN /\ whResponses = <<200>>
                    /\ eventQueue = Append(whQueueAtArrival, whReq)
               ELSE /\ whResponses = <<401>>
                    /\ eventQueue = whQueueAtArrival
    /\ wpc \in {"handler", "verified"} => eventQueue = whQueueAtArrival

C30_Witness ==
    /\ wpc = "done"
    /\ whCount = 2
    /\ whReq.signature = createHmac("k2", "b1")
    /\ whReq.rawBody = "b1"
    /\ whResponses = <<401>>
    /\ Len(eventQueue) = 1

=============================================================================
